---- MODULE Spec2Model ----
(***************************************************************************)
(* A model of the storage core of leviska/tagged: the active block, the    *)
(* in-memory compaction list, the block files, the background save worker, *)
(* the stop future and the three-phase iterator (src/src/storage).         *)
(*                                                                         *)
(* Strings are modelled by small sets: a tag is one of Tags (ordered as    *)
(* the strings are, TagOrder), a key is the serial number of its document. *)
(* A Vec is a sequence; ordinals stay 0-based as in the source, so the     *)
(* ordinal k names keys[k+1].                                              *)
(***************************************************************************)
EXTENDS Integers, Sequences, FiniteSets, TLC

(* ------------------------------ bounds -------------------------------- *)

\* documents pushed in one run
MaxDocs == 3
\* wall-clock readings are 1..MaxClock; any reading may follow any other
MaxClock == 3
\* longest batch handed to push_batch
MaxBatch == 2
\* block handles a reader keeps at one time
MaxHeld == 1
\* Config.max_active_size of the run
max_active_size == 2
\* Config.max_block_size of the run
max_block_size == 2

Tags == {"tag0", "tag1", "tag2"}
\* the tags in the order of String's Ord
TagOrder == <<"tag0", "tag1", "tag2">>
\* the tag lists a document is pushed with
TagLists == {<<"tag0">>, <<"tag2", "tag0", "tag1">>}

Pushers == {"p1", "p2"}
Iters == {"i1"}
\* the iterators of the runs that look at the locks alone
Iters2 == {"i1", "i2"}
Readers == {"r1", "r2"}
Tiers == {"active_block", "compact_list", "block_files"}

(* ----------------------------- helpers -------------------------------- *)

Max(a, b) == IF a >= b THEN a ELSE b
Last(s) == s[Len(s)]
Front(s) == SubSeq(s, 1, Len(s) - 1)
Range(s) == {s[i] : i \in DOMAIN s}
Reverse(s) == [i \in 1..Len(s) |-> s[Len(s) + 1 - i]]

\* iteration order of a BTreeMap's keys: ascending
SortedTags(S) == SelectSeq(TagOrder, LAMBDA t : t \in S)

(* --------------------------- ActiveBlock ------------------------------ *)

\* ActiveBlock::default(): an empty BTreeMap, no keys, size 0
ActiveBlock_default ==
    [index |-> [t \in {} |-> <<>>], keys |-> <<>>, timestamps |-> <<>>, size |-> 0]

\* for tag in tags { index.entry(tag).or_default().push(id) }
RECURSIVE push_tags(_, _, _)
push_tags(index, tags, id) ==
    IF tags = <<>> THEN index
    ELSE LET tag == Head(tags)
             old == IF tag \in DOMAIN index THEN index[tag] ELSE <<>>
             new == [t \in DOMAIN index \cup {tag} |->
                        IF t = tag THEN Append(old, id) ELSE index[t]]
         IN  push_tags(new, Tail(tags), id)

\* a faulty push: the clock reading is taken as it is
ActiveBlock_push_unclamped(self, key, tags, now) ==
    [size       |-> self.size + Len(tags),
     keys       |-> Append(self.keys, key),
     timestamps |-> Append(self.timestamps, now),
     index      |-> push_tags(self.index, tags, Len(self.keys))]

\* a faulty push: the ordinal is read after the key has been pushed
ActiveBlock_push_late_id(self, key, tags, now) ==
    [size       |-> self.size + Len(tags),
     keys       |-> Append(self.keys, key),
     timestamps |-> Append(self.timestamps,
                       Max(now, IF self.timestamps = <<>> THEN 0
                                ELSE Last(self.timestamps))),
     index      |-> push_tags(self.index, tags, Len(self.keys) + 1)]

\* ActiveBlock::push; now is the reading of SystemTime::now() in ms
ActiveBlock_push(self, key, tags, now) ==
    [size       |-> self.size + Len(tags),
     keys       |-> Append(self.keys, key),
     timestamps |-> Append(self.timestamps,
                       Max(now, IF self.timestamps = <<>> THEN 0
                                ELSE Last(self.timestamps))),
     index      |-> push_tags(self.index, tags, Len(self.keys))]

\* a faulty into_block: the map is walked from its greatest key down
ActiveBlock_into_block_descending(self) ==
    LET tags == Reverse(SortedTags(DOMAIN self.index))
    IN  [data |-> [tags       |-> tags,
                   keys       |-> self.keys,
                   timestamps |-> self.timestamps,
                   index      |-> [i \in 1..Len(tags) |-> self.index[tags[i]]]],
         size |-> self.size]

\* ActiveBlock::into_block: tags and postings in the map's order
ActiveBlock_into_block(self) ==
    LET tags == SortedTags(DOMAIN self.index)
    IN  [data |-> [tags       |-> tags,
                   keys       |-> self.keys,
                   timestamps |-> self.timestamps,
                   index      |-> [i \in 1..Len(tags) |-> self.index[tags[i]]]],
         size |-> self.size]

ActiveBlock_size(self) == self.size

(* ---------------------- BlockData / InMemoryBlock --------------------- *)

\* index_map collected from self.tags zip self.index: a later entry of the
\* same tag replaces an earlier one
RECURSIVE collect_index(_, _, _)
collect_index(map, tags, index) ==
    IF tags = <<>> THEN map
    ELSE collect_index([t \in DOMAIN map \cup {Head(tags)} |->
                           IF t = Head(tags) THEN Head(index) ELSE map[t]],
                       Tail(tags), Tail(index))

\* a faulty merge of the posting lists: the ordinals of other are not shifted
RECURSIVE extend_index_unshifted(_, _, _, _)
extend_index_unshifted(map, tags, index, shift) ==
    IF tags = <<>> THEN map
    ELSE LET tag == Head(tags)
             old == IF tag \in DOMAIN map THEN map[tag] ELSE <<>>
         IN  extend_index_unshifted([t \in DOMAIN map \cup {tag} |->
                                        IF t = tag THEN old \o Head(index) ELSE map[t]],
                                    Tail(tags), Tail(index), shift)

\* other.index zip other.tags: each list shifted by self.keys.len() and
\* appended to the entry of its tag (created empty when absent)
RECURSIVE extend_index(_, _, _, _)
extend_index(map, tags, index, shift) ==
    IF tags = <<>> THEN map
    ELSE LET tag == Head(tags)
             old == IF tag \in DOMAIN map THEN map[tag] ELSE <<>>
             add == [i \in 1..Len(Head(index)) |-> Head(index)[i] + shift]
         IN  extend_index([t \in DOMAIN map \cup {tag} |->
                              IF t = tag THEN old \o add ELSE map[t]],
                          Tail(tags), Tail(index), shift)

\* the two debug_assert_eq! of BlockData::merge
merge_debug_asserts(self, other) ==
    /\ \A i \in DOMAIN self.timestamps : self.timestamps[i] <= Last(self.timestamps)
    /\ \A i \in DOMAIN other.timestamps : other.timestamps[i] >= Head(other.timestamps)

\* BlockData::merge once the operands are in order: the posting lists of
\* other are shifted and appended, the tags come out in the map's order, the
\* keys and timestamps of other follow those of self
merge_ordered(self, other) ==
    LET index_map == extend_index(
                         collect_index([t \in {} |-> <<>>], self.tags, self.index),
                         other.tags, other.index, Len(self.keys))
        tags == SortedTags(DOMAIN index_map)
    IN  [tags       |-> tags,
         index      |-> [i \in 1..Len(tags) |-> index_map[tags[i]]],
         keys       |-> self.keys \o other.keys,
         timestamps |-> self.timestamps \o other.timestamps]

\* a faulty merge: operands that come in the wrong order are not swapped
BlockData_merge_unswapped(self, other) ==
    IF self.keys = <<>> THEN [panic |-> FALSE, debug_panic |-> FALSE, val |-> other]
    ELSE IF other.keys = <<>> THEN [panic |-> FALSE, debug_panic |-> FALSE, val |-> self]
    ELSE IF Last(self.timestamps) > Head(other.timestamps)
            /\ Last(other.timestamps) > Head(self.timestamps)
    THEN [panic |-> TRUE, debug_panic |-> TRUE, val |-> self]
    ELSE [panic |-> FALSE, debug_panic |-> ~merge_debug_asserts(self, other),
          val |-> merge_ordered(self, other)]

\* a faulty merge: blocks that only touch (other ends where self begins)
\* count as intersecting
BlockData_merge_touching(self, other) ==
    IF self.keys = <<>> THEN [panic |-> FALSE, debug_panic |-> FALSE, val |-> other]
    ELSE IF other.keys = <<>> THEN [panic |-> FALSE, debug_panic |-> FALSE, val |-> self]
    ELSE IF Last(self.timestamps) > Head(other.timestamps)
    THEN IF Last(other.timestamps) >= Head(self.timestamps)
         THEN [panic |-> TRUE, debug_panic |-> TRUE, val |-> self]
         ELSE [panic |-> FALSE, debug_panic |-> ~merge_debug_asserts(other, self),
               val |-> merge_ordered(other, self)]
    ELSE [panic |-> FALSE, debug_panic |-> ~merge_debug_asserts(self, other),
          val |-> merge_ordered(self, other)]

\* BlockData::merge. panic: "blocks intersect"; debug_panic: what a build with
\* debug assertions does (it also panics where a debug_assert_eq! fails)
RECURSIVE BlockData_merge(_, _)
BlockData_merge(self, other) ==
    IF self.keys = <<>> THEN [panic |-> FALSE, debug_panic |-> FALSE, val |-> other]
    ELSE IF other.keys = <<>> THEN [panic |-> FALSE, debug_panic |-> FALSE, val |-> self]
    ELSE IF Last(self.timestamps) > Head(other.timestamps)
    THEN IF Last(other.timestamps) > Head(self.timestamps)
         THEN [panic |-> TRUE, debug_panic |-> TRUE, val |-> self]
         ELSE LET r == BlockData_merge(other, self)
              IN  [r EXCEPT !.debug_panic = @ \/ ~merge_debug_asserts(self, other)]
    ELSE [panic       |-> FALSE,
          debug_panic |-> ~merge_debug_asserts(self, other),
          val         |-> merge_ordered(self, other)]

\* a faulty InMemoryBlock::merge: the size of other is not added
InMemoryBlock_merge_self_size(self, other) ==
    LET data == BlockData_merge(self.data, other.data)
    IN  [panic       |-> data.panic,
         debug_panic |-> data.debug_panic,
         val         |-> [data |-> data.val, size |-> self.size]]

\* InMemoryBlock::merge
InMemoryBlock_merge(self, other) ==
    LET data == BlockData_merge(self.data, other.data)
    IN  [panic       |-> data.panic,
         debug_panic |-> data.debug_panic,
         val         |-> [data |-> data.val, size |-> self.size + other.size]]

\* BlockData::range
BlockData_range(self) == <<Head(self.timestamps), Last(self.timestamps)>>

(* ----------------------- compaction and flush ------------------------- *)

\* a faulty loop: nothing is merged
compact_loop_unmerged(list, handles, debug) == [panic |-> FALSE, list |-> list]

\* a faulty loop: blocks are merged while the second last is smaller than
\* twice the last
RECURSIVE compact_loop_twice(_, _, _)
compact_loop_twice(list, handles, debug) ==
    IF Len(list) < 2 THEN [panic |-> FALSE, list |-> list]
    ELSE LET prev == list[Len(list) - 1]
             last == list[Len(list)]
             rest == SubSeq(list, 1, Len(list) - 2)
             need_merge == prev.size < last.size * 2
             merged == InMemoryBlock_merge(prev, last)
         IN  IF ~need_merge THEN [panic |-> FALSE, list |-> list]
             ELSE IF last \in handles THEN [panic |-> TRUE, list |-> Front(list)]
             ELSE IF prev \in handles THEN [panic |-> TRUE, list |-> rest]
             ELSE IF merged.panic \/ (debug /\ merged.debug_panic)
                  THEN [panic |-> TRUE, list |-> rest]
             ELSE compact_loop_twice(Append(rest, merged.val), handles, debug)

\* a faulty loop: a block of exactly four times the size of the last one is
\* merged too
RECURSIVE compact_loop_inclusive(_, _, _)
compact_loop_inclusive(list, handles, debug) ==
    IF Len(list) < 2 THEN [panic |-> FALSE, list |-> list]
    ELSE LET prev == list[Len(list) - 1]
             last == list[Len(list)]
             rest == SubSeq(list, 1, Len(list) - 2)
             need_merge == prev.size <= last.size * 4
             merged == InMemoryBlock_merge(prev, last)
         IN  IF ~need_merge THEN [panic |-> FALSE, list |-> list]
             ELSE IF last \in handles THEN [panic |-> TRUE, list |-> Front(list)]
             ELSE IF prev \in handles THEN [panic |-> TRUE, list |-> rest]
             ELSE IF merged.panic \/ (debug /\ merged.debug_panic)
                  THEN [panic |-> TRUE, list |-> rest]
             ELSE compact_loop_inclusive(Append(rest, merged.val), handles, debug)

\* the while-let loop of Storage::compact. handles: the blocks a reader holds
\* an Arc of, on which Arc::try_unwrap(..).unwrap() panics. list is what is
\* left in compact_list when the loop ends or panics.
RECURSIVE compact_loop(_, _, _)
compact_loop(list, handles, debug) ==
    IF Len(list) < 2 THEN [panic |-> FALSE, list |-> list]
    ELSE LET prev == list[Len(list) - 1]
             last == list[Len(list)]
             rest == SubSeq(list, 1, Len(list) - 2)
             need_merge == prev.size < last.size * 4
             merged == InMemoryBlock_merge(prev, last)
         IN  IF ~need_merge THEN [panic |-> FALSE, list |-> list]
             ELSE IF last \in handles THEN [panic |-> TRUE, list |-> Front(list)]
             ELSE IF prev \in handles THEN [panic |-> TRUE, list |-> rest]
             ELSE IF merged.panic \/ (debug /\ merged.debug_panic)
                  THEN [panic |-> TRUE, list |-> rest]
             ELSE compact_loop(Append(rest, merged.val), handles, debug)

\* a faulty compact: a block is flushed only above twice max_block_size
compact_with_late(list, handles, debug, limit) ==
    LET m == compact_loop(list, handles, debug)
        need_write == m.list # <<>> /\ Last(m.list).size > 2 * limit
    IN  IF m.panic THEN [panic |-> TRUE, list |-> m.list, new_block |-> <<>>]
        ELSE IF ~need_write THEN [panic |-> FALSE, list |-> m.list, new_block |-> <<>>]
        ELSE IF Last(m.list) \in handles
             THEN [panic |-> TRUE, list |-> Front(m.list), new_block |-> <<>>]
        ELSE [panic |-> FALSE, list |-> Front(m.list), new_block |-> <<Last(m.list)>>]

\* a faulty compact: a block of exactly max_block_size is flushed too
compact_with_inclusive(list, handles, debug, limit) ==
    LET m == compact_loop(list, handles, debug)
        need_write == m.list # <<>> /\ Last(m.list).size >= limit
    IN  IF m.panic THEN [panic |-> TRUE, list |-> m.list, new_block |-> <<>>]
        ELSE IF ~need_write THEN [panic |-> FALSE, list |-> m.list, new_block |-> <<>>]
        ELSE IF Last(m.list) \in handles
             THEN [panic |-> TRUE, list |-> Front(m.list), new_block |-> <<>>]
        ELSE [panic |-> FALSE, list |-> Front(m.list), new_block |-> <<Last(m.list)>>]

\* Storage::compact of a storage whose config.max_block_size is limit:
\* new_block is <<>> (None) or <<block>> (Some)
compact_with(list, handles, debug, limit) ==
    LET m == compact_loop(list, handles, debug)
        need_write == m.list # <<>> /\ Last(m.list).size > limit
    IN  IF m.panic THEN [panic |-> TRUE, list |-> m.list, new_block |-> <<>>]
        ELSE IF ~need_write THEN [panic |-> FALSE, list |-> m.list, new_block |-> <<>>]
        ELSE IF Last(m.list) \in handles
             THEN [panic |-> TRUE, list |-> Front(m.list), new_block |-> <<>>]
        ELSE [panic |-> FALSE, list |-> Front(m.list), new_block |-> <<Last(m.list)>>]

\* Storage::compact under the configuration of the storage of this model
Storage_compact(list, handles, debug) ==
    compact_with(list, handles, debug, max_block_size)

\* the debug_assert! of Storage::write_block
write_block_assert(block, files) ==
    files = <<>> \/ BlockData_range(Last(files).data)[2] <= BlockData_range(block.data)[1]

\* a faulty write_block: the result of try_write is unwrapped
Storage_write_block_unwrap(block, files, write_ok, debug) ==
    IF block.data.timestamps = <<>> \/ ~write_ok THEN [panic |-> TRUE, files |-> files]
    ELSE IF debug /\ ~write_block_assert(block, files) THEN [panic |-> TRUE, files |-> files]
    ELSE [panic |-> FALSE, files |-> Append(files, [data |-> block.data])]

\* Storage::write_block. write_ok: whether try_write (open and write the file)
\* succeeds. A block file keeps the data it was written from, every posting
\* list loaded.
Storage_write_block(block, files, write_ok, debug) ==
    IF block.data.timestamps = <<>> THEN [panic |-> TRUE, files |-> files]
    ELSE IF ~write_ok THEN [panic |-> FALSE, files |-> files]
    ELSE IF debug /\ ~write_block_assert(block, files) THEN [panic |-> TRUE, files |-> files]
    ELSE [panic |-> FALSE, files |-> Append(files, [data |-> block.data])]

(* ------------------------------ state --------------------------------- *)

VARIABLES
    active_block,   \* Storage.active_block: the ActiveBlock
    compact_list,   \* Storage.compact_list: InMemoryBlocks, oldest first
    block_files,    \* Storage.block_files: block files, oldest first
    lock_w,         \* per tier: who holds the RwLock for writing, or "none"
    lock_r,         \* per tier: the iterators holding the RwLock for reading
    poisoned,       \* the tiers whose RwLock a panicking writer poisoned
    stopped,        \* Storage.stopped
    permit,         \* the permit bg_notify stores when notify_one finds no waiter
    worker,         \* the save worker task and the save_active it awaits
    stop,           \* where the stop future is
    owners,         \* who holds an Arc<Storage>
    pusher,         \* per push / push_batch caller: where its call is
    iter,           \* per StorageIter: StorageIterType, StorageLockedIter.cur, val
    handles,        \* the compact_list blocks a reader keeps a handle of
    build,          \* whether debug assertions are compiled in, once it matters
    next_key,       \* documents handed to push so far
    pushed,         \* history: the documents whose push was applied, in order
    last_push,      \* history: the last application of a pusher closure
    flush_failed,   \* history: a try_write failed
    seen,           \* history, per iterator: what it was given
    unit            \* the blocks of a run of the block functions on their own

vars == <<active_block, compact_list, block_files, lock_w, lock_r, poisoned,
          stopped, permit, worker, stop, owners, pusher, iter, handles, build,
          next_key, pushed, last_push, flush_failed, seen, unit>>

tier_vars == <<active_block, compact_list, block_files>>
lock_vars == <<lock_w, lock_r, poisoned>>
push_hist == <<next_key, pushed, last_push>>

\* StorageIter::new, before the iterator exists ("None") and after
StorageIter_new == [cur |-> "Active", idx |-> 0, val |-> ActiveBlock_default]
NoIter == [cur |-> "None", idx |-> 0, val |-> ActiveBlock_default]
\* yielded: the blocks next() returned; exhausted: next() returned None;
\* at_lock: how many documents had been pushed when the iterator took its
\* first lock (the documents pushed before it was constructed are among them);
\* live: the keys that were in a tier, or in the hands of a save on their way
\* to the next tier, at that moment; snap, cl, bf: the active block it cloned
\* and the lists it locked
NoSeen == [yielded |-> <<>>, exhausted |-> FALSE, at_lock |-> 0, live |-> {},
           snap |-> <<>>, cl |-> <<>>, bf |-> <<>>]

\* A seekable byte stream is its position and the values serialised into
\* it, each at the offset of its first byte with the number of bytes it takes
\* and what it is ("header", "strs", "uints"). A value written over a part of
\* another destroys that other.
Cursor_new == [pos |-> 0, items |-> [o \in {} |-> 0]]

\* the block functions on their own, as the tests of block.rs run them: the
\* active block pushed to, the documents pushed to it with the clock reading
\* of each push, the two blocks at hand (first, second), the next key, the
\* last function applied with what it was given and what it returned, the
\* stream blocks are written to, the blocks written with their headers, and
\* the block file read back (<<>>: none)
\* a caller of read_indicies between two calls
NoReader ==
    [pc |-> "idle", ids |-> <<>>, res |-> <<>>, skipped |-> <<>>,
     missed |-> FALSE, exclusive |-> FALSE]

NoUnit ==
    [active |-> ActiveBlock_default, docs |-> <<>>,
     first |-> ActiveBlock_into_block(ActiveBlock_default),
     second |-> ActiveBlock_into_block(ActiveBlock_default),
     next_key |-> 0, last |-> [op |-> "none"],
     file |-> Cursor_new, written |-> <<>>, block |-> <<>>,
     readers |-> [r \in Readers |-> NoReader],
     lock |-> [r |-> {}, w |-> {}],
     list |-> <<>>, limit |-> max_block_size, saves |-> 0,
     updated |-> {},
     lex |-> [query |-> <<>>, self |-> [tail |-> <<>>, position |-> 0],
              out |-> <<>>, done |-> FALSE]]

\* Storage::new: empty tiers, the worker task spawned and not yet polled, the
\* stop future not yet polled; the handle, the worker task and the stop
\* future each own the storage. No iterator exists yet.
InitOver(I) ==
    /\ active_block = ActiveBlock_default
    /\ compact_list = <<>>
    /\ block_files = <<>>
    /\ lock_w = [t \in Tiers |-> "none"]
    /\ lock_r = [t \in Tiers |-> {}]
    /\ poisoned = {}
    /\ stopped = FALSE
    /\ permit = FALSE
    /\ worker = [pc |-> "loop", wake |-> FALSE, missed |-> FALSE,
                 old_active |-> ActiveBlock_default, new_block |-> <<>>]
    /\ stop = "new"
    /\ owners = {"handle", "worker", "stop"}
    /\ pusher = [p \in Pushers |-> "idle"]
    /\ iter = [i \in I |-> NoIter]
    /\ handles = {}
    /\ build = "any"
    /\ next_key = 0
    /\ pushed = <<>>
    /\ last_push = [before |-> 0, pairs |-> 0]
    /\ flush_failed = FALSE
    /\ seen = [i \in I |-> NoSeen]
    /\ unit = NoUnit

Init == InitOver(Iters)

\* RwLock::write returns once nobody holds the lock; RwLock::read once no
\* writer holds it
WriteFree(t) == lock_w[t] = "none" /\ lock_r[t] = {}
ReadFree(t) == lock_w[t] = "none"

\* the builds a run may still be: debug assertions on (TRUE) or off (FALSE)
Builds == IF build = "any" THEN BOOLEAN ELSE {build = "debug"}
Latch(debug, matters) ==
    IF matters THEN (IF debug THEN "debug" ELSE "release") ELSE build

(* ------------------------- push / push_batch -------------------------- *)

\* Storage::push / push_batch is called; push_impl starts in acquire_active.
\* (The documents of the call are drawn where the closure runs, PushApply:
\* nothing reads them before.)
PushCall(p) ==
    /\ pusher[p] = "idle"
    /\ pusher' = [pusher EXCEPT ![p] = "acquire"]
    /\ UNCHANGED <<unit, tier_vars, lock_vars, stopped, permit, worker, stop, owners,
                   iter, handles, build, push_hist, flush_failed, seen>>

\* a faulty acquire_active: the guard is returned whatever the size
acquire_unchecked(active) == TRUE

\* the test of acquire_active: the guard is returned only below the limit
acquire_ok(active) == ActiveBlock_size(active) < max_active_size

\* one round of the loop of acquire_active: take the write lock; return the
\* guard, or drop it and yield
PushAcquire(p) ==
    /\ pusher[p] = "acquire"
    /\ WriteFree("active_block")
    /\ IF acquire_ok(active_block)
       THEN /\ lock_w' = [lock_w EXCEPT !["active_block"] = p]
            /\ pusher' = [pusher EXCEPT ![p] = "locked"]
       ELSE /\ pusher' = [pusher EXCEPT ![p] = "yield"]
            /\ UNCHANGED lock_w
    /\ UNCHANGED <<unit, tier_vars, lock_r, poisoned, stopped, permit, worker, stop,
                   owners, iter, handles, build, push_hist, flush_failed, seen>>

\* tokio::task::yield_now().await returns
PushYield(p) ==
    /\ pusher[p] = "yield"
    /\ pusher' = [pusher EXCEPT ![p] = "acquire"]
    /\ UNCHANGED <<unit, tier_vars, lock_vars, stopped, permit, worker, stop, owners,
                   iter, handles, build, push_hist, flush_failed, seen>>

\* the pusher closure: ActiveBlock::push for each document, each with its own
\* clock reading
RECURSIVE apply_docs(_, _, _)
apply_docs(active, docs, clock) ==
    IF docs = <<>> THEN active
    ELSE apply_docs(ActiveBlock_push(active, Head(docs).key, Head(docs).tags, Head(clock)),
                    Tail(docs), Tail(clock))

RECURSIVE pairs_of(_)
pairs_of(docs) == IF docs = <<>> THEN 0 ELSE Len(Head(docs).tags) + pairs_of(Tail(docs))

\* Notify::notify_one: wakes the waiter, or stores the permit
notify_one(w) == IF w.pc = "notified" /\ ~w.wake THEN [w EXCEPT !.wake = TRUE] ELSE w
notify_one_permit(w, old) == IF w.pc = "notified" /\ ~w.wake THEN old ELSE TRUE

\* the documents of one call, keyed from first + 1: push(key, tags) is a
\* batch of one, push_batch(vec![]) a batch of none
Batches(first) ==
    UNION {{[k \in 1..n |-> [key |-> first + k, tags |-> tl[k]]] :
               tl \in [1..n -> TagLists]} : n \in 0..MaxBatch}

\* the rest of push_impl under the guard: the closure, the notification when
\* the block is full, the guard dropped on return
PushApply(p) ==
    /\ pusher[p] = "locked"
    /\ \E docs \in Batches(next_key) :
       \E clock \in [1..Len(docs) -> 1..MaxClock] :
          LET active == apply_docs(active_block, docs, clock)
              full == ActiveBlock_size(active) >= max_active_size
          IN  /\ next_key + Len(docs) <= MaxDocs
              /\ next_key' = next_key + Len(docs)
              /\ active_block' = active
              /\ worker' = IF full THEN notify_one(worker) ELSE worker
              /\ permit' = IF full THEN notify_one_permit(worker, permit) ELSE permit
              /\ last_push' = [before |-> ActiveBlock_size(active_block),
                               pairs |-> pairs_of(docs)]
              /\ pushed' = pushed \o docs
    /\ lock_w' = [lock_w EXCEPT !["active_block"] = "none"]
    /\ pusher' = [pusher EXCEPT ![p] = "idle"]
    /\ UNCHANGED <<unit, compact_list, block_files, lock_r, poisoned, stopped, stop,
                   owners, iter, handles, build, flush_failed, seen>>

(* ------------------- save worker, save_active, stop -------------------- *)

\* the condition of the while loop of save_worker, as written
save_worker_condition(flag) == flag

\* the worker task reaches the head of its loop (first when it is first
\* polled): it leaves the loop, dropping its Arc, or awaits notified(), which
\* takes a stored permit at once
WorkerLoop ==
    /\ worker.pc = "loop"
    /\ IF save_worker_condition(stopped)
       THEN /\ worker' = [worker EXCEPT !.pc = "notified", !.wake = permit,
                                        !.missed = FALSE]
            /\ permit' = FALSE
            /\ UNCHANGED owners
       ELSE /\ worker' = [worker EXCEPT !.pc = "exited", !.missed = FALSE]
            /\ owners' = owners \ {"worker"}
            /\ UNCHANGED permit
    /\ UNCHANGED <<unit, tier_vars, lock_vars, stopped, stop, pusher, iter, handles,
                   build, push_hist, flush_failed, seen>>

\* notified() is ready: the worker clones its Arc and awaits save_active on
\* the blocking pool
WorkerWake ==
    /\ worker.pc = "notified"
    /\ worker.wake
    /\ worker' = [worker EXCEPT !.pc = "save_active", !.wake = FALSE]
    /\ owners' = owners \cup {"save"}
    /\ UNCHANGED <<unit, tier_vars, lock_vars, stopped, permit, stop, pusher, iter,
                   handles, build, push_hist, flush_failed, seen>>

\* what a panic of save_active leaves: the blocking task and, through the
\* unwrap of its join result, the worker task are over and their Arcs dropped
WorkerPanicked ==
    [pc |-> "panicked", wake |-> FALSE, missed |-> FALSE, old_active |-> ActiveBlock_default,
     new_block |-> <<>>]

\* a faulty save_active: the comparison is the other way round, a block
\* that is not above the limit is taken
SaveLockActive_inverted ==
    /\ worker.pc = "save_active"
    /\ lock_w["active_block"] = "none" /\ lock_r["active_block"] = {}
    /\ IF ActiveBlock_size(active_block) > max_active_size
       THEN /\ worker' = [worker EXCEPT !.pc = "loop", !.missed = TRUE]
            /\ owners' = owners \ {"save"}
            /\ UNCHANGED <<active_block, lock_w>>
       ELSE /\ worker' = [worker EXCEPT !.pc = "save_compact", !.old_active = active_block]
            /\ active_block' = ActiveBlock_default
            /\ lock_w' = [lock_w EXCEPT !["active_block"] = "save"]
            /\ UNCHANGED owners
    /\ UNCHANGED <<unit, compact_list, block_files, lock_r, poisoned, stopped, permit,
                   stop, pusher, iter, handles, build, push_hist, flush_failed, seen>>

\* a faulty save_active: the block is taken whatever its size
SaveLockActive_unchecked ==
    /\ worker.pc = "save_active"
    /\ lock_w["active_block"] = "none" /\ lock_r["active_block"] = {}
    /\ worker' = [worker EXCEPT !.pc = "save_compact", !.old_active = active_block]
    /\ active_block' = ActiveBlock_default
    /\ lock_w' = [lock_w EXCEPT !["active_block"] = "save"]
    /\ UNCHANGED <<unit, compact_list, block_files, lock_r, poisoned, stopped, permit,
                   stop, owners, pusher, iter, handles, build, push_hist,
                   flush_failed, seen>>

\* save_active, first lock: the active block; a block below the limit is a
\* missed save and returns (worker.missed: "missed saving active block" is
\* the last thing logged, until the loop comes round); a full one is taken,
\* leaving a default block.
\* (The unwrap of a lock result panics on a poisoned lock. Only save_active
\* poisons a tier lock, and no save_active follows one that panicked, so
\* save_active itself never meets one.)
SaveLockActive ==
    /\ worker.pc = "save_active"
    /\ WriteFree("active_block")
    /\ IF ActiveBlock_size(active_block) < max_active_size
       THEN /\ worker' = [worker EXCEPT !.pc = "loop", !.missed = TRUE]
            /\ owners' = owners \ {"save"}
            /\ UNCHANGED <<active_block, lock_w>>
       ELSE /\ worker' = [worker EXCEPT !.pc = "save_compact", !.old_active = active_block]
            /\ active_block' = ActiveBlock_default
            /\ lock_w' = [lock_w EXCEPT !["active_block"] = "save"]
            /\ UNCHANGED owners
    /\ UNCHANGED <<unit, compact_list, block_files, lock_r, poisoned, stopped, permit,
                   stop, pusher, iter, handles, build, push_hist, flush_failed, seen>>

\* save_active, second lock: compact_list is locked, the active lock dropped,
\* the old block sealed and pushed, the list compacted. A panic of compact
\* unwinds with the write guard alive: the lock is poisoned.
SaveLockCompact ==
    /\ worker.pc = "save_compact"
    /\ WriteFree("compact_list")
    /\ \E debug \in Builds :
          LET list == Append(compact_list, ActiveBlock_into_block(worker.old_active))
              r == Storage_compact(list, handles, debug)
              matters == Storage_compact(list, handles, TRUE)
                             # Storage_compact(list, handles, FALSE)
          IN  /\ build' = Latch(debug, matters)
              /\ compact_list' = r.list
              /\ IF r.panic
                 THEN /\ worker' = WorkerPanicked
                      /\ owners' = owners \ {"save", "worker"}
                      /\ poisoned' = poisoned \cup {"compact_list"}
                      /\ lock_w' = [lock_w EXCEPT !["active_block"] = "none"]
                 ELSE /\ worker' = [worker EXCEPT !.pc = "save_files",
                                                  !.old_active = ActiveBlock_default,
                                                  !.new_block = r.new_block]
                      /\ lock_w' = [lock_w EXCEPT !["active_block"] = "none",
                                                  !["compact_list"] = "save"]
                      /\ UNCHANGED <<owners, poisoned>>
    /\ UNCHANGED <<unit, active_block, block_files, lock_r, stopped, permit, stop,
                   pusher, iter, handles, push_hist, flush_failed, seen>>

\* save_active, third lock: block_files is locked, then compact_list dropped
SaveLockFiles ==
    /\ worker.pc = "save_files"
    /\ WriteFree("block_files")
    /\ worker' = [worker EXCEPT !.pc = "write_block"]
    /\ lock_w' = [lock_w EXCEPT !["compact_list"] = "none", !["block_files"] = "save"]
    /\ UNCHANGED <<unit, tier_vars, lock_r, poisoned, stopped, permit, stop, owners,
                   pusher, iter, handles, build, push_hist, flush_failed, seen>>

\* the end of save_active: write_block when compact returned a block, then
\* the return, which drops the block_files guard and the task's Arc
SaveWrite ==
    /\ worker.pc = "write_block"
    /\ \E write_ok \in BOOLEAN, debug \in Builds :
          LET block == worker.new_block[1]
              r == IF worker.new_block = <<>> THEN [panic |-> FALSE, files |-> block_files]
                   ELSE Storage_write_block(block, block_files, write_ok, debug)
              failed == worker.new_block # <<>> /\ ~write_ok
              matters == /\ worker.new_block # <<>>
                         /\ write_ok
                         /\ ~write_block_assert(block, block_files)
          IN  /\ build' = Latch(debug, matters)
              /\ block_files' = r.files
              /\ flush_failed' = (flush_failed \/ failed)
              /\ IF r.panic
                 THEN /\ worker' = WorkerPanicked
                      /\ owners' = owners \ {"save", "worker"}
                      /\ poisoned' = poisoned \cup {"block_files"}
                 ELSE /\ worker' = [worker EXCEPT !.pc = "loop", !.new_block = <<>>]
                      /\ owners' = owners \ {"save"}
                      /\ UNCHANGED poisoned
    /\ lock_w' = [lock_w EXCEPT !["block_files"] = "none"]
    /\ UNCHANGED <<unit, active_block, compact_list, lock_r, stopped, permit, stop,
                   pusher, iter, handles, push_hist, seen>>

\* the stop future is first polled: send_stop stores the flag
StopStore ==
    /\ stop = "new"
    /\ stopped' = TRUE
    /\ stop' = "notify_waiters"
    /\ UNCHANGED <<unit, tier_vars, lock_vars, permit, worker, owners, pusher, iter,
                   handles, build, push_hist, flush_failed, seen>>

\* Notify::notify_waiters: wakes the tasks waiting now and stores nothing
notify_waiters(w) == IF w.pc = "notified" THEN [w EXCEPT !.wake = TRUE] ELSE w

\* send_stop broadcasts and returns, dropping the Arc it was given
StopNotify ==
    /\ stop = "notify_waiters"
    /\ worker' = notify_waiters(worker)
    /\ owners' = owners \ {"stop"}
    /\ stop' = "join"
    /\ UNCHANGED <<unit, tier_vars, lock_vars, stopped, permit, pusher, iter, handles,
                   build, push_hist, flush_failed, seen>>

\* a faulty stop future: it does not wait for the worker task
join_unawaited(w) == TRUE

\* the JoinHandle of the worker task is ready once the task is over
join_ready(w) == w.pc \in {"exited", "panicked"}

\* join.await returns: the stop future completes
StopJoin ==
    /\ stop = "join"
    /\ join_ready(worker)
    /\ stop' = "done"
    /\ UNCHANGED <<unit, tier_vars, lock_vars, stopped, permit, worker, owners, pusher,
                   iter, handles, build, push_hist, flush_failed, seen>>

(* ----------------------------- StorageIter ---------------------------- *)

\* what a reader gets of a yielded block through the SearchBlock trait
SearchBlock(type, block) == [type |-> type, data |-> block.data]

\* a faulty StorageIter: the tier locks taken in the opposite order
StorageIter_lock_reversed(phase) ==
    CASE phase = "Active" -> "block_files"
      [] phase = "ActiveLocked" -> "compact_list"
      [] OTHER -> "active_block"

\* a faulty StorageIter: block_files is locked where compact_list should be
StorageIter_lock_skipping(phase) ==
    CASE phase = "Active" -> "active_block"
      [] OTHER -> "block_files"

\* the tier lock next() takes in each phase of the iterator: active_block in
\* Active, compact_list before leaving Active, block_files when InMemory ends
StorageIter_lock(phase) ==
    CASE phase = "Active" -> "active_block"
      [] phase = "ActiveLocked" -> "compact_list"
      [] OTHER -> "block_files"

\* Storage::iter
IterNew(i) ==
    /\ iter[i].cur = "None"
    /\ iter' = [iter EXCEPT ![i] = StorageIter_new]
    /\ UNCHANGED <<unit, tier_vars, lock_vars, stopped, permit, worker, stop, owners,
                   pusher, handles, build, push_hist, flush_failed, seen>>

\* the keys in the tiers and in the blocks a save in flight has in hand
LiveKeys ==
    Range(active_block.keys) \cup Range(worker.old_active.keys)
    \cup UNION {Range(b.data.keys) :
                  b \in Range(compact_list) \cup Range(block_files) \cup Range(worker.new_block)}

\* next() in Active, first half: the active block is read-locked and cloned
IterLockActive(i) ==
    /\ iter[i].cur = "Active"
    /\ ReadFree(StorageIter_lock("Active"))
    /\ lock_r' = [lock_r EXCEPT ![StorageIter_lock("Active")] = @ \cup {i}]
    /\ iter' = [iter EXCEPT ![i] = [cur |-> "ActiveLocked", idx |-> 0, val |-> active_block]]
    /\ seen' = [seen EXCEPT ![i].at_lock = Len(pushed), ![i].live = LiveKeys]
    /\ UNCHANGED <<unit, tier_vars, lock_w, poisoned, stopped, permit, worker, stop,
                   owners, pusher, handles, build, push_hist, flush_failed>>

\* next() in Active, second half: compact_list is read-locked (the unwrap
\* panics on a poisoned lock), then the active lock dropped; the clone is
\* sealed and yielded
IterLockCompact(i) ==
    /\ iter[i].cur = "ActiveLocked"
    /\ ReadFree(StorageIter_lock("ActiveLocked"))
    /\ IF StorageIter_lock("ActiveLocked") \in poisoned
       THEN /\ lock_r' = [lock_r EXCEPT ![StorageIter_lock("Active")] = @ \ {i}]
            /\ iter' = [iter EXCEPT ![i] = [NoIter EXCEPT !.cur = "Panicked"]]
            /\ UNCHANGED seen
       ELSE /\ lock_r' = [lock_r EXCEPT ![StorageIter_lock("Active")] = @ \ {i},
                                        ![StorageIter_lock("ActiveLocked")] = @ \cup {i}]
            /\ iter' = [iter EXCEPT ![i] = [cur |-> "InMemory", idx |-> Len(compact_list),
                                            val |-> ActiveBlock_default]]
            /\ seen' = [seen EXCEPT
                          ![i].yielded = <<SearchBlock("InMemory",
                                              ActiveBlock_into_block(iter[i].val))>>,
                          ![i].snap = <<iter[i].val>>,
                          ![i].cl = compact_list]
    /\ UNCHANGED <<unit, tier_vars, lock_w, poisoned, stopped, permit, worker, stop,
                   owners, pusher, handles, build, push_hist, flush_failed>>

\* a faulty StorageLockedIter::next: the element below the newest comes first
StorageLockedIter_next_skipping(cur) ==
    IF cur > 1 THEN [cur |-> cur - 1, at |-> cur - 1] ELSE [cur |-> cur, at |-> 0]

\* StorageLockedIter::next: the position after the step and the index (from
\* 1) of the element yielded, 0 for None
StorageLockedIter_next(cur) ==
    IF cur > 0 THEN [cur |-> cur - 1, at |-> cur] ELSE [cur |-> cur, at |-> 0]

\* next() in InMemory with a block left: a clone of its Arc is yielded; the
\* reader keeps the handle or drops it
IterNextInMemory(i) ==
    /\ iter[i].cur = "InMemory"
    /\ StorageLockedIter_next(iter[i].idx).at > 0
    /\ LET n == StorageLockedIter_next(iter[i].idx)
           block == compact_list[n.at]
       IN  /\ iter' = [iter EXCEPT ![i].idx = n.cur]
           /\ seen' = [seen EXCEPT ![i].yielded = Append(@, SearchBlock("InMemory", block))]
           /\ \E keep \in BOOLEAN :
                 /\ keep => Cardinality(handles \cup {block}) <= MaxHeld
                 /\ handles' = IF keep THEN handles \cup {block} ELSE handles
    /\ UNCHANGED <<unit, tier_vars, lock_vars, stopped, permit, worker, stop, owners,
                   pusher, build, push_hist, flush_failed>>

\* next() in InMemory with no block left: block_files is read-locked (the
\* unwrap panics on a poisoned lock), the compact_list guard dropped, and
\* next() of the File phase gives the result
IterLockFiles(i) ==
    /\ iter[i].cur = "InMemory"
    /\ StorageLockedIter_next(iter[i].idx).at = 0
    /\ ReadFree(StorageIter_lock("InMemory"))
    /\ IF StorageIter_lock("InMemory") \in poisoned
       THEN /\ lock_r' = [lock_r EXCEPT ![StorageIter_lock("ActiveLocked")] = @ \ {i}]
            /\ iter' = [iter EXCEPT ![i] = [NoIter EXCEPT !.cur = "Panicked"]]
            /\ UNCHANGED seen
       ELSE LET n == StorageLockedIter_next(Len(block_files))
            IN  /\ lock_r' = [lock_r EXCEPT ![StorageIter_lock("ActiveLocked")] = @ \ {i},
                                            ![StorageIter_lock("InMemory")] = @ \cup {i}]
                /\ iter' = [iter EXCEPT ![i] = [cur |-> "File", idx |-> n.cur,
                                                val |-> ActiveBlock_default]]
                /\ seen' = [seen EXCEPT
                              ![i].bf = block_files,
                              ![i].exhausted = (n.at = 0),
                              ![i].yielded = IF n.at = 0 THEN @
                                  ELSE Append(@, SearchBlock("File", block_files[n.at]))]
    /\ UNCHANGED <<unit, tier_vars, lock_w, poisoned, stopped, permit, worker, stop,
                   owners, pusher, handles, build, push_hist, flush_failed>>

\* next() in File: the next block file, or None
IterNextFile(i) ==
    /\ iter[i].cur = "File"
    /\ LET n == StorageLockedIter_next(iter[i].idx)
       IN  /\ iter' = [iter EXCEPT ![i].idx = n.cur]
           /\ seen' = [seen EXCEPT
                         ![i].exhausted = (@ \/ n.at = 0),
                         ![i].yielded = IF n.at = 0 THEN @
                             ELSE Append(@, SearchBlock("File", block_files[n.at]))]
    /\ UNCHANGED <<unit, tier_vars, lock_vars, stopped, permit, worker, stop, owners,
                   pusher, handles, build, push_hist, flush_failed>>

\* the iterator is dropped between two calls of next() (or its thread has
\* panicked): the guard it holds is released
IterDrop(i) ==
    /\ iter[i].cur \in {"Active", "InMemory", "File", "Panicked"}
    /\ iter' = [iter EXCEPT ![i] = NoIter]
    /\ seen' = [seen EXCEPT ![i] = NoSeen]
    /\ lock_r' = [t \in Tiers |-> lock_r[t] \ {i}]
    /\ UNCHANGED <<unit, tier_vars, lock_w, poisoned, stopped, permit, worker, stop,
                   owners, pusher, handles, build, push_hist, flush_failed>>

\* the reader drops a block handle it kept
HandleDrop ==
    /\ \E b \in handles : handles' = handles \ {b}
    /\ UNCHANGED <<unit, tier_vars, lock_vars, stopped, permit, worker, stop, owners,
                   pusher, iter, build, push_hist, flush_failed, seen>>

(* --------------------------- specification ---------------------------- *)

Next ==
    \/ \E p \in Pushers : PushCall(p)
    \/ \E p \in Pushers : PushAcquire(p)
    \/ \E p \in Pushers : PushYield(p)
    \/ \E p \in Pushers : PushApply(p)
    \/ WorkerLoop
    \/ WorkerWake
    \/ SaveLockActive
    \/ SaveLockCompact
    \/ SaveLockFiles
    \/ SaveWrite
    \/ StopStore
    \/ StopNotify
    \/ StopJoin
    \/ \E i \in Iters : IterNew(i)
    \/ \E i \in Iters : IterLockActive(i)
    \/ \E i \in Iters : IterLockCompact(i)
    \/ \E i \in Iters : IterNextInMemory(i)
    \/ \E i \in Iters : IterLockFiles(i)
    \/ \E i \in Iters : IterNextFile(i)
    \/ \E i \in Iters : IterDrop(i)
    \/ HandleDrop

Spec == Init /\ [][Next]_vars

\* The runs that look at the locks alone: two iterators, and to make room
\* for them every clock reading the same and every document with the one tag.
Calm ==
    /\ \A k \in DOMAIN active_block.timestamps : active_block.timestamps[k] = 1
    /\ \A k \in DOMAIN pushed : pushed[k].tags = <<"tag0">>

PushApplyCalm(p) == PushApply(p) /\ Calm'

NextTwo ==
    \/ \E p \in Pushers : PushCall(p)
    \/ \E p \in Pushers : PushAcquire(p)
    \/ \E p \in Pushers : PushYield(p)
    \/ \E p \in Pushers : PushApplyCalm(p)
    \/ WorkerLoop
    \/ WorkerWake
    \/ SaveLockActive
    \/ SaveLockCompact
    \/ SaveLockFiles
    \/ SaveWrite
    \/ StopStore
    \/ StopNotify
    \/ StopJoin
    \/ \E i \in Iters2 : IterNew(i)
    \/ \E i \in Iters2 : IterLockActive(i)
    \/ \E i \in Iters2 : IterLockCompact(i)
    \/ \E i \in Iters2 : IterNextInMemory(i)
    \/ \E i \in Iters2 : IterLockFiles(i)
    \/ \E i \in Iters2 : IterNextFile(i)
    \/ \E i \in Iters2 : IterDrop(i)
    \/ HandleDrop

SpecTwo == InitOver(Iters2) /\ [][NextTwo]_vars

\* Scheduling: the runtime keeps polling a task that is ready, the blocking
\* pool runs save_active, a thread that asked for a lock gets it when the lock
\* keeps coming free, and a reader goes on with the iterator it holds and
\* drops it in the end. Nothing obliges the callers to call push, iter or the
\* stop future.
FairSpec ==
    /\ Spec
    /\ \A p \in Pushers : SF_vars(PushAcquire(p)) /\ WF_vars(PushYield(p) \/ PushApply(p))
    /\ WF_vars(WorkerLoop \/ WorkerWake \/ SaveWrite)
    /\ SF_vars(SaveLockActive \/ SaveLockCompact \/ SaveLockFiles)
    /\ WF_vars(StopNotify \/ StopJoin)
    /\ \A i \in Iters :
          /\ SF_vars(IterLockActive(i) \/ IterLockCompact(i) \/ IterLockFiles(i))
          /\ WF_vars(IterNextInMemory(i) \/ IterNextFile(i))
          /\ SF_vars(IterDrop(i))

(* ----------------- the block functions on their own ------------------- *)

\* documents pushed in one run of the block functions
MaxKeys == 3
\* the tag lists of these runs: also a document with no tag and one whose
\* list repeats a tag
UnitTagLists == {<<>>, <<"tag1", "tag1">>, <<"tag2", "tag0", "tag1">>}
Slots == {"first", "second"}

storage_vars == <<active_block, compact_list, block_files, lock_w, lock_r,
                  poisoned, stopped, permit, worker, stop, owners, pusher, iter,
                  handles, build, next_key, pushed, last_push, flush_failed, seen>>

\* ActiveBlock::default().into_block()
InMemoryBlock_empty == ActiveBlock_into_block(ActiveBlock_default)

\* active.push(key, tags), the clock giving any reading
UnitPush ==
    /\ unit.next_key < MaxKeys
    /\ \E tags \in UnitTagLists, now \in 1..MaxClock :
          unit' = [unit EXCEPT
                     !.active = ActiveBlock_push(@, unit.next_key + 1, tags, now),
                     !.docs = Append(@, [key |-> unit.next_key + 1, tags |-> tags,
                                         now |-> now]),
                     !.next_key = @ + 1,
                     !.last = [op |-> "push"]]
    /\ UNCHANGED storage_vars

\* let first = active.into_block() (or second), a new active block following
UnitSeal(slot) ==
    /\ unit' = [unit EXCEPT
                  ![slot] = ActiveBlock_into_block(unit.active),
                  !.active = ActiveBlock_default,
                  !.docs = <<>>,
                  !.last = [op |-> "into_block", docs |-> unit.docs,
                            out |-> ActiveBlock_into_block(unit.active)]]
    /\ UNCHANGED storage_vars

\* let first = first.merge(second) (or the other way round), in a build with
\* debug assertions or without, which differ only where a debug_assert_eq!
\* fails; both blocks are moved into the call
UnitMerge(a, b) ==
    /\ a # b
    /\ LET r == InMemoryBlock_merge(unit[a], unit[b])
       IN  \E debug \in (IF r.debug_panic = r.panic THEN {FALSE} ELSE BOOLEAN) :
              LET panicked == r.panic \/ (debug /\ r.debug_panic)
              IN  unit' = [unit EXCEPT
                             ![a] = IF panicked THEN InMemoryBlock_empty ELSE r.val,
                             ![b] = InMemoryBlock_empty,
                             !.last = [op |-> "merge", self |-> unit[a], other |-> unit[b],
                                       panicked |-> panicked,
                                       out |-> IF panicked THEN InMemoryBlock_empty
                                               ELSE r.val]]
    /\ UNCHANGED storage_vars

NextBlock ==
    \/ UnitPush
    \/ \E slot \in Slots : UnitSeal(slot)
    \/ \E a \in Slots, b \in Slots : UnitMerge(a, b)

SpecBlock == Init /\ [][NextBlock]_vars

(* ------------------- compaction of a list of blocks ------------------- *)

\* the calls of save_active that are followed
MaxSaves == 6
\* the pairs of the largest block save_active seals
MaxSealed == 3

\* config.max_block_size: that of the storage above, and one under which a
\* list of several blocks outlives compaction
UnitLimits == {max_block_size, 8 * max_block_size}

\* the block save_active seals: n documents of one tag, keyed from
\* first + 1 and pushed at one clock reading
SealedBlock(first, n, now) ==
    ActiveBlock_into_block(
        apply_docs(ActiveBlock_default,
                   [i \in 1..n |-> [key |-> first + i, tags |-> <<"tag0">>]],
                   [i \in 1..n |-> now]))

\* Storage::new(config), nothing saved yet
CompactNew ==
    /\ unit.last.op = "none"
    /\ \E limit \in UnitLimits :
          unit' = [unit EXCEPT !.limit = limit, !.last = [op |-> "config"]]
    /\ UNCHANGED storage_vars

\* save_active with no reader about: the active block, of n pairs written
\* after every earlier one, is sealed and pushed, the list compacted, and
\* the block compact returns leaves the list
CompactSave ==
    /\ unit.last.op \in {"config", "compact"}
    /\ unit.saves < MaxSaves
    /\ \E n \in 1..MaxSealed :
          LET list == Append(unit.list,
                             SealedBlock(unit.next_key, n, unit.saves + 1))
              same == compact_with(list, {}, TRUE, unit.limit)
                          = compact_with(list, {}, FALSE, unit.limit)
          IN  \E debug \in (IF same THEN {FALSE} ELSE BOOLEAN) :
                 LET r == compact_with(list, {}, debug, unit.limit)
                 IN  unit' = [unit EXCEPT
                                !.list = r.list,
                                !.next_key = @ + n,
                                !.saves = @ + 1,
                                !.last = [op |-> "compact", before |-> list,
                                          after |-> r.list,
                                          new_block |-> r.new_block,
                                          panic |-> r.panic]]
    /\ UNCHANGED storage_vars

NextCompact ==
    \/ CompactNew
    \/ CompactSave

SpecCompact == Init /\ [][NextCompact]_vars

(* ------------------------------ the lexer ----------------------------- *)

\* the characters of a query: the one-character operators, a whitespace,
\* the quote, the letters of the keywords and one of them in upper case, an
\* ordinary ASCII character, and a letter of two bytes
Alphabet ==
    {"(", ")", "~", " ", "\"", "a", "n", "d", "o", "r", "t", "O", "_", "U+00E9"}

\* the characters of the longest query
MaxQuery == 4
Queries == UNION {[1..n -> Alphabet] : n \in 0..MaxQuery}

\* char::len_utf8
len_utf8(c) == IF c = "U+00E9" THEN 2 ELSE 1

\* str::len, in bytes
RECURSIVE str_len(_)
str_len(s) == IF s = <<>> THEN 0 ELSE len_utf8(Head(s)) + str_len(Tail(s))

\* char::is_whitespace and u8::is_ascii_alphabetic, as the sets they accept
Whitespace == {" "}
AsciiAlphabetic == {"a", "n", "d", "o", "r", "t", "O"}

\* a faulty comparison: the case counts
eq_case(a, b) == a = b

\* str::eq_ignore_ascii_case
eq_ignore_ascii_case(a, b) ==
    /\ Len(a) = Len(b)
    /\ \A i \in DOMAIN a :
           (IF a[i] = "O" THEN "o" ELSE a[i]) = (IF b[i] = "O" THEN "o" ELSE b[i])

\* try_chars and try_bytes: the bytes of the longest prefix whose characters
\* (of one byte each, for try_bytes) the predicate accepts
RECURSIVE try_chars(_, _)
try_chars(tail, accepted) ==
    IF tail = <<>> \/ Head(tail) \notin accepted THEN 0
    ELSE len_utf8(Head(tail)) + try_chars(Tail(tail), accepted)

\* str::split_at, count being a character boundary
RECURSIVE split_at(_, _)
split_at(s, count) ==
    IF count = 0 THEN <<<<>>, s>>
    ELSE LET r == split_at(Tail(s), count - len_utf8(Head(s)))
         IN  <<<<Head(s)>> \o r[1], r[2]>>

\* Tokenizer::from
Tokenizer_from(input) == [tail |-> input, position |-> 0]

\* Tokenizer::advance_bytes
advance_bytes(self, count) ==
    LET s == split_at(self.tail, count)
    IN  [word |-> s[1],
         self |-> [tail |-> s[2], position |-> self.position + count]]

\* Tokenizer::skip_whitespace
skip_whitespace(self) == advance_bytes(self, try_chars(self.tail, Whitespace)).self

\* a faulty next_operator: the keywords are compared as they are written
next_operator_cased(self) ==
    IF self.tail = <<>> THEN [kind |-> <<>>, self |-> self]
    ELSE LET c == Head(self.tail)
             count == try_chars(self.tail, AsciiAlphabetic)
             word == split_at(self.tail, count)[1]
         IN  IF c = "(" THEN [kind |-> <<"OpenParen">>, self |-> advance_bytes(self, 1).self]
             ELSE IF c = ")"
             THEN [kind |-> <<"CloseParen">>, self |-> advance_bytes(self, 1).self]
             ELSE IF c = "~" THEN [kind |-> <<"Fuzzy">>, self |-> advance_bytes(self, 1).self]
             ELSE IF eq_case(<<"a", "n", "d">>, word)
             THEN [kind |-> <<"And">>, self |-> advance_bytes(self, count).self]
             ELSE IF eq_case(<<"o", "r">>, word)
             THEN [kind |-> <<"Or">>, self |-> advance_bytes(self, count).self]
             ELSE IF eq_case(<<"n", "o", "t">>, word)
             THEN [kind |-> <<"Not">>, self |-> advance_bytes(self, count).self]
             ELSE [kind |-> <<>>, self |-> self]

\* Tokenizer::next_operator: kind is <<>> (None) or <<kind>> (Some)
next_operator(self) ==
    IF self.tail = <<>> THEN [kind |-> <<>>, self |-> self]
    ELSE LET c == Head(self.tail)
             count == try_chars(self.tail, AsciiAlphabetic)
             word == split_at(self.tail, count)[1]
         IN  IF c = "(" THEN [kind |-> <<"OpenParen">>, self |-> advance_bytes(self, 1).self]
             ELSE IF c = ")"
             THEN [kind |-> <<"CloseParen">>, self |-> advance_bytes(self, 1).self]
             ELSE IF c = "~" THEN [kind |-> <<"Fuzzy">>, self |-> advance_bytes(self, 1).self]
             ELSE IF eq_ignore_ascii_case(<<"a", "n", "d">>, word)
             THEN [kind |-> <<"And">>, self |-> advance_bytes(self, count).self]
             ELSE IF eq_ignore_ascii_case(<<"o", "r">>, word)
             THEN [kind |-> <<"Or">>, self |-> advance_bytes(self, count).self]
             ELSE IF eq_ignore_ascii_case(<<"n", "o", "t">>, word)
             THEN [kind |-> <<"Not">>, self |-> advance_bytes(self, count).self]
             ELSE [kind |-> <<>>, self |-> self]

\* a faulty next_tag: the error carries the position behind the quote
next_tag_behind(self) ==
    IF Head(self.tail) = "\""
    THEN LET opened == advance_bytes(self, 1).self
             phrase == try_chars(opened.tail, Alphabet \ {"\""})
             result == advance_bytes(opened, phrase)
         IN  IF phrase = str_len(opened.tail)
             THEN [err |-> TRUE, position |-> opened.position, value |-> <<>>,
                   self |-> opened]
             ELSE [err |-> FALSE, position |-> opened.position, value |-> result.word,
                   self |-> advance_bytes(result.self, 1).self]
    ELSE LET result == advance_bytes(self,
                           try_chars(self.tail,
                                     Alphabet \ ({"~", "(", ")"} \cup Whitespace)))
         IN  [err |-> FALSE, position |-> self.position, value |-> result.word,
              self |-> result.self]

\* Tokenizer::next_tag, the tail not being empty: the value, or
\* UnpairedQuote with its position; self is left behind the quote then
next_tag(self) ==
    IF Head(self.tail) = "\""
    THEN LET position == self.position
             opened == advance_bytes(self, 1).self
             phrase == try_chars(opened.tail, Alphabet \ {"\""})
             result == advance_bytes(opened, phrase)
         IN  IF phrase = str_len(opened.tail)
             THEN [err |-> TRUE, position |-> position, value |-> <<>>,
                   self |-> opened]
             ELSE [err |-> FALSE, position |-> position, value |-> result.word,
                   self |-> advance_bytes(result.self, 1).self]
    ELSE LET result == advance_bytes(self,
                           try_chars(self.tail,
                                     Alphabet \ ({"~", "(", ")"} \cup Whitespace)))
         IN  [err |-> FALSE, position |-> self.position, value |-> result.word,
              self |-> result.self]

\* <Tokenizer as Iterator>::next: item is <<>> (None) or <<Ok or Err>>
Tokenizer_next(self) ==
    LET s == skip_whitespace(self)
        position == s.position
        op == next_operator(s)
        tag == next_tag(s)
    IN  IF s.tail = <<>> THEN [item |-> <<>>, self |-> s]
        ELSE IF op.kind # <<>>
        THEN [item |-> <<[type |-> "Operator", kind |-> op.kind[1],
                          position |-> position]>>,
              self |-> op.self]
        ELSE IF tag.err
        THEN [item |-> <<[type |-> "UnpairedQuote", position |-> tag.position]>>,
              self |-> tag.self]
        ELSE [item |-> <<[type |-> "Tag", value |-> tag.value, start |-> position,
                          end |-> tag.self.position]>>,
              self |-> tag.self]

\* Tokenizer::from(query), of any query
LexFrom ==
    /\ unit.last.op = "none"
    /\ \E query \in Queries :
          unit' = [unit EXCEPT
                     !.lex = [query |-> query, self |-> Tokenizer_from(query),
                              out |-> <<>>, done |-> FALSE],
                     !.last = [op |-> "lex"]]
    /\ UNCHANGED storage_vars

\* one call of next(), until it has returned None; a caller may go on after
\* an error. to: where the tokenizer stands after the call
LexNext ==
    /\ unit.last.op = "lex"
    /\ ~unit.lex.done
    /\ LET r == Tokenizer_next(unit.lex.self)
       IN  unit' = [unit EXCEPT
                      !.lex.self = r.self,
                      !.lex.done = (r.item = <<>>),
                      !.lex.out = IF r.item = <<>> THEN @
                                  ELSE Append(@, [item |-> r.item[1],
                                                  from |-> unit.lex.self.position,
                                                  to |-> r.self.position])]
    /\ UNCHANGED storage_vars

NextLexer ==
    \/ LexFrom
    \/ LexNext

SpecLexer == Init /\ [][NextLexer]_vars

(* --------------------------- the block codec -------------------------- *)

stream_seek(stream, to) == [stream EXCEPT !.pos = to]

stream_write(stream, kind, val, len) ==
    LET kept == {o \in DOMAIN stream.items :
                    o + stream.items[o].len <= stream.pos \/ o >= stream.pos + len}
    IN  [pos   |-> stream.pos + len,
         items |-> [o \in kept \cup {stream.pos} |->
                       IF o = stream.pos THEN [kind |-> kind, val |-> val, len |-> len]
                       ELSE stream.items[o]]]

\* rmp_serde::from_read of a value of the given kind at the position: <<>>
\* for an error, else the value; an empty array reads as a Vec of any type
stream_read(stream, kind) ==
    IF stream.pos \notin DOMAIN stream.items THEN <<>>
    ELSE LET item == stream.items[stream.pos]
         IN  IF item.kind = kind \/ (kind # "header" /\ item.kind # "header" /\ item.val = <<>>)
             THEN <<item.val>>
             ELSE <<>>

\* the stream after from_read has taken the value at the position
stream_read_end(stream) ==
    IF stream.pos \notin DOMAIN stream.items THEN stream
    ELSE [stream EXCEPT !.pos = @ + stream.items[@].len]

\* the bytes MessagePack takes for an unsigned integer (9 from 2^32 on, which
\* no number of the model reaches), for the head of an array, for a string of
\* four characters ("tag0", "key1")
rmp_uint_len(n) ==
    IF n < 128 THEN 1 ELSE IF n < 256 THEN 2 ELSE IF n < 65536 THEN 3 ELSE 5
rmp_array_len(n) == IF n < 16 THEN 1 ELSE IF n < 65536 THEN 3 ELSE 5
rmp_str_len(str) == 1 + 4

RECURSIVE rmp_uints_body(_)
rmp_uints_body(v) ==
    IF v = <<>> THEN 0 ELSE rmp_uint_len(Head(v)) + rmp_uints_body(Tail(v))
rmp_uints_len(v) == rmp_array_len(Len(v)) + rmp_uints_body(v)

RECURSIVE rmp_strs_body(_)
rmp_strs_body(v) ==
    IF v = <<>> THEN 0 ELSE rmp_str_len(Head(v)) + rmp_strs_body(Tail(v))
rmp_strs_len(v) == rmp_array_len(Len(v)) + rmp_strs_body(v)

\* a struct is written as the array of its eight fields
rmp_header_len(header) ==
    1 + rmp_uint_len(header.start) + rmp_uint_len(header.tags)
      + rmp_uint_len(header.keys) + rmp_uint_len(header.timestamps)
      + rmp_uints_len(header.index)
      + rmp_uint_len(header.from) + rmp_uint_len(header.to)
      + rmp_uint_len(header.size)

\* a faulty header_size: five bytes for each number, as for a u32
header_size_u32(size) == 1 + 4 * 5 + 5 + size * 5 + 2 * 5 + 5

\* fn header_size
header_size(size) == 1 + 4 * 9 + 5 + size * 9 + 2 * 9 + 9

\* a u64 by its four 16-bit digits, the most significant first: 0, the
\* largest and the smallest number of each MessagePack width, u64::MAX
U64_MAX == <<65535, 65535, 65535, 65535>>
U64Samples ==
    {<<0, 0, 0, 0>>, <<0, 0, 0, 127>>, <<0, 0, 0, 128>>, <<0, 0, 0, 255>>,
     <<0, 0, 0, 256>>, <<0, 0, 0, 65535>>, <<0, 0, 1, 0>>, <<0, 0, 65535, 65535>>,
     <<0, 1, 0, 0>>, U64_MAX}
\* the values the seven numbers of a header are drawn from, one of the
\* shortest, one in between, the longest
OffsetSamples == {<<0, 0, 0, 0>>, <<0, 0, 0, 256>>, U64_MAX}
\* header.index.resize(n, value): the lengths of a run of equal offsets
RunLengths == {1, 15, 1024, 65535, 1048576}

\* the bytes of a u64 of any size
rmp_u64_len(x) ==
    IF x[1] # 0 \/ x[2] # 0 THEN 9 ELSE IF x[3] # 0 THEN 5 ELSE rmp_uint_len(x[4])

\* rmp_serde::to_vec(&header).len() of a header whose index is given by its
\* runs of equal offsets: a run, or a run and one more offset
RECURSIVE runs_count(_)
runs_count(runs) ==
    IF runs = <<>> THEN 0 ELSE Head(runs).count + runs_count(Tail(runs))
RECURSIVE runs_body(_)
runs_body(runs) ==
    IF runs = <<>> THEN 0
    ELSE Head(runs).count * rmp_u64_len(Head(runs).val) + runs_body(Tail(runs))
to_vec_len(header) ==
    1 + rmp_u64_len(header.start) + rmp_u64_len(header.tags)
      + rmp_u64_len(header.keys) + rmp_u64_len(header.timestamps)
      + rmp_array_len(runs_count(header.index)) + runs_body(header.index)
      + rmp_u64_len(header.from) + rmp_u64_len(header.to)
      + rmp_u64_len(header.size)

\* the buffer write_impl fills for one posting list: the first ordinal, then
\* the difference of each from the one before
delta_encode(ind) ==
    [i \in DOMAIN ind |-> IF i = 1 THEN ind[1] ELSE ind[i] - ind[i - 1]]

\* the loop of write_impl over self.index: the offset of each list is pushed
\* to header.index and its buffer serialised
RECURSIVE write_index(_, _, _)
write_index(output, index, offsets) ==
    IF index = <<>> THEN [output |-> output, offsets |-> offsets]
    ELSE LET buf == delta_encode(Head(index))
         IN  write_index(stream_write(output, "uints", buf, rmp_uints_len(buf)),
                         Tail(index), Append(offsets, output.pos))

\* BlockData::write_impl up to the header's serialisation, on a stream that
\* takes every write: the sections behind the room kept for the header, then
\* the header at the start
write_sections(self, output) ==
    LET start == output.pos
        at_tags == stream_seek(output, start + header_size(Len(self.index)))
        at_keys == stream_write(at_tags, "strs", self.tags, rmp_strs_len(self.tags))
        at_timestamps == stream_write(at_keys, "strs", self.keys, rmp_strs_len(self.keys))
        at_index == stream_write(at_timestamps, "uints", self.timestamps,
                                 rmp_uints_len(self.timestamps))
        lists == write_index(at_index, self.index, <<>>)
        header == [start      |-> start,
                   tags       |-> at_tags.pos,
                   keys       |-> at_keys.pos,
                   timestamps |-> at_timestamps.pos,
                   index      |-> lists.offsets,
                   from       |-> IF self.timestamps = <<>> THEN 0 ELSE Head(self.timestamps),
                   to         |-> IF self.timestamps = <<>> THEN 0 ELSE Last(self.timestamps),
                   size       |-> lists.output.pos - start]
    IN  [header |-> header,
         output |-> stream_write(stream_seek(lists.output, start), "header", header,
                                 rmp_header_len(header))]

\* a faulty write_impl: the stream is left behind the header
write_impl_left_at_header(self, output) ==
    LET w == write_sections(self, output)
    IN  [panic  |-> ~(output.pos + header_size(Len(self.index)) >= w.output.pos),
         header |-> w.header,
         output |-> w.output]

\* BlockData::write_impl; panic: "header has overwritten data"
write_impl(self, output) ==
    LET w == write_sections(self, output)
    IN  [panic  |-> ~(output.pos + header_size(Len(self.index)) >= w.output.pos),
         header |-> w.header,
         output |-> stream_seek(w.output, w.header.start + w.header.size)]

\* BlockHeader::read_header; debug_panic: the debug_assert_eq! fails
read_header(input, start) ==
    LET got == stream_read(stream_seek(input, start), "header")
        after == stream_read_end(stream_seek(input, start))
    IN  IF got = <<>>
        THEN [err |-> TRUE, debug_panic |-> FALSE, header |-> <<>>, input |-> after]
        ELSE [err |-> FALSE, debug_panic |-> got[1].start # start, header |-> got,
              input |-> after]

\* BlockHeader::read_meta: a posting list not loaded (None) is <<>>, a loaded
\* one (Some) the list in a sequence of one
read_meta(self, file) ==
    LET tags == stream_read(stream_seek(file, self.tags), "strs")
        keys == stream_read(stream_seek(file, self.keys), "strs")
        timestamps == stream_read(stream_seek(file, self.timestamps), "uints")
        after == stream_read_end(stream_seek(file, self.timestamps))
    IN  IF tags = <<>> \/ keys = <<>> \/ timestamps = <<>>
        THEN [err |-> TRUE, block |-> <<>>, file |-> after]
        ELSE [err   |-> FALSE,
              file  |-> after,
              block |-> <<[header |-> self,
                           data   |-> [tags       |-> tags[1],
                                       keys       |-> keys[1],
                                       timestamps |-> timestamps[1],
                                       index      |-> [i \in DOMAIN self.index |-> <<>>]]]>>]

\* a faulty prefix sum: each element is added to the gap before it, not to
\* the ordinal before it
prefix_sum_of_gaps(ind) ==
    [i \in DOMAIN ind |-> IF i = 1 THEN ind[1] ELSE ind[i] + ind[i - 1]]

\* for i in 1..ind.len() { ind[i] += ind[i - 1] }
RECURSIVE prefix_sum(_)
prefix_sum(ind) ==
    IF Len(ind) <= 1 THEN ind
    ELSE LET front == prefix_sum(Front(ind))
         IN  Append(front, Last(ind) + Last(front))

\* BlockFile::try_get_index (id from 1): <<>> for None
try_get_index(self, id) == self.data.index[id]

\* a faulty read_index: the list is read from the file also when it is loaded
read_index_uncached(self, file, id) ==
    LET at == stream_seek(file, self.header.index[id])
        ind == stream_read(at, "uints")
    IN  IF ind = <<>> THEN [err |-> TRUE, block |-> self, file |-> stream_read_end(at)]
        ELSE [err   |-> FALSE,
              file  |-> stream_read_end(at),
              block |-> [self EXCEPT !.data.index[id] = <<prefix_sum(ind[1])>>]]

\* BlockFile::read_index (id from 1): a loaded list is left as it is and the
\* file is not used
read_index(self, file, id) ==
    IF self.data.index[id] # <<>> THEN [err |-> FALSE, block |-> self, file |-> file]
    ELSE LET at == stream_seek(file, self.header.index[id])
             ind == stream_read(at, "uints")
         IN  IF ind = <<>> THEN [err |-> TRUE, block |-> self, file |-> stream_read_end(at)]
             ELSE [err   |-> FALSE,
                   file  |-> stream_read_end(at),
                   block |-> [self EXCEPT !.data.index[id] = <<prefix_sum(ind[1])>>]]

\* BlockFile::read_all: read_index for each list, up to the first error
RECURSIVE read_all_from(_, _, _)
read_all_from(self, file, id) ==
    IF id > Len(self.data.index) THEN [err |-> FALSE, block |-> self, file |-> file]
    ELSE LET r == read_index(self, file, id)
         IN  IF r.err THEN r ELSE read_all_from(r.block, r.file, id + 1)
read_all(self, file) == read_all_from(self, file, 1)

\* the blocks written: as the tests basic, data and empty build them, with no
\* tag, one or two, no key, one or two, posting lists empty, of one ordinal,
\* with an ordinal repeated, of three ordinals, and with ordinals that take
\* more than one byte
CodecLists == {<<>>, <<0>>, <<1, 1>>, <<0, 2, 3>>, <<1, 200, 300>>}
CodecKeys == {<<>>, <<1>>, <<1, 2>>}
CodecTimestamps == [i \in {0, 1, 2} |-> <<<<>>, <<2>>, <<1, 3>>>>[i + 1]]
CodecBlocks ==
    {[tags |-> SubSeq(TagOrder, 1, Len(index)), keys |-> keys,
      timestamps |-> CodecTimestamps[Len(keys)], index |-> index] :
        keys \in CodecKeys,
        index \in UNION {[1..n -> CodecLists] : n \in {0, 1, 2}}}

\* block.write(file): the block is written where the stream stands, a new
\* Cursor or the file of the block written before
CodecWrite ==
    /\ Len(unit.written) < Cardinality(Slots)
    /\ unit.block = <<>>
    /\ unit.last.op \in {"none", "write"}
    /\ \E data \in CodecBlocks :
          LET r == write_impl(data, unit.file)
          IN  unit' = [unit EXCEPT
                         !.file = r.output,
                         !.written = Append(@, [header |-> r.header, data |-> data]),
                         !.last = [op |-> "write", start |-> unit.file.pos,
                                   panicked |-> r.panic]]
    /\ UNCHANGED storage_vars

\* BlockHeader::read_header(&mut file, header.start)?.read_meta(file)? on one
\* of the blocks written
CodecOpen(k) ==
    /\ k \in DOMAIN unit.written
    /\ unit.block = <<>>
    /\ LET start == unit.written[k].header.start
           h == read_header(unit.file, start)
           m == IF h.err THEN [err |-> TRUE, block |-> <<>>, file |-> h.input]
                ELSE read_meta(h.header[1], h.input)
       IN  unit' = [unit EXCEPT
                      !.block = m.block,
                      !.file = m.file,
                      !.last = [op |-> "read_meta", of |-> k, err |-> m.err,
                                debug_panic |-> h.debug_panic]]
    /\ UNCHANGED storage_vars

\* read.read_index(id)
CodecReadIndex(id) ==
    /\ unit.block # <<>>
    /\ id \in DOMAIN unit.block[1].data.index
    /\ LET r == read_index(unit.block[1], unit.file, id)
       IN  unit' = [unit EXCEPT
                      !.block = <<r.block>>,
                      !.file = r.file,
                      !.last = [op |-> "read_index", of |-> unit.last.of, id |-> id,
                                err |-> r.err,
                                cached |-> try_get_index(unit.block[1], id) # <<>>]]
    /\ UNCHANGED storage_vars

\* read.read_all()
CodecReadAll ==
    /\ unit.block # <<>>
    /\ LET r == read_all(unit.block[1], unit.file)
       IN  unit' = [unit EXCEPT
                      !.block = <<r.block>>,
                      !.file = r.file,
                      !.last = [op |-> "read_all", of |-> unit.last.of, err |-> r.err]]
    /\ UNCHANGED storage_vars

\* the block file is dropped (release_all gives the stream back)
CodecClose ==
    /\ unit.block # <<>>
    /\ unit' = [unit EXCEPT !.block = <<>>, !.last = [op |-> "release_all"]]
    /\ UNCHANGED storage_vars

\* the test header_size: a header is filled with numbers and serialised
IndexRuns ==
    {<<>>} \cup {<<run>> : run \in [val : U64Samples, count : RunLengths]}
           \cup {<<run, [val |-> last, count |-> 1]>> :
                     run \in [val : U64Samples, count : RunLengths], last \in U64Samples}
HeaderSerialize ==
    /\ unit.last.op = "none"
    /\ \E f \in [{"start", "tags", "keys", "timestamps", "from", "to", "size"}
                     -> OffsetSamples],
          index \in IndexRuns :
          LET header == [start |-> f["start"], tags |-> f["tags"], keys |-> f["keys"],
                         timestamps |-> f["timestamps"], index |-> index,
                         from |-> f["from"], to |-> f["to"], size |-> f["size"]]
          IN  unit' = [unit EXCEPT
                         !.last = [op |-> "to_vec", n |-> runs_count(index),
                                   len |-> to_vec_len(header)]]
    /\ UNCHANGED storage_vars

NextCodec ==
    \/ CodecWrite
    \/ HeaderSerialize
    \/ \E k \in 1..Cardinality(Slots) : CodecOpen(k)
    \/ \E id \in 1..Len(TagOrder) : CodecReadIndex(id)
    \/ CodecReadAll
    \/ CodecClose

SpecCodec == Init /\ [][NextCodec]_vars

\* the calls of update_index that are followed
MaxUpdates == 1

\* the blocks of a file that is written to again
MaxWritten == 1

\* BlockFile::release
release(self, ind) == [self EXCEPT !.data.index[ind] = <<>>]

\* BlockFile::update_index: the list as it is in memory is serialised at
\* the offset the header records; err: the list is not loaded
update_index(self, file, id) ==
    LET at == stream_seek(file, self.header.index[id])
    IN  IF self.data.index[id] = <<>> THEN [err |-> TRUE, file |-> at]
        ELSE [err  |-> FALSE,
              file |-> stream_write(at, "uints", self.data.index[id][1],
                                    rmp_uints_len(self.data.index[id][1]))]

\* read.update_index(id); updated: which list of which block of the file was
\* written again, and what it was in memory
CodecUpdateIndex(id) ==
    /\ unit.block # <<>>
    /\ "of" \in DOMAIN unit.last
    /\ id \in DOMAIN unit.block[1].data.index
    /\ Cardinality(unit.updated) < MaxUpdates
    /\ LET r == update_index(unit.block[1], unit.file, id)
       IN  unit' = [unit EXCEPT
                      !.file = r.file,
                      !.updated = IF r.err THEN @
                                  ELSE @ \cup {[of |-> unit.last.of, id |-> id,
                                                list |-> unit.block[1].data.index[id][1]]},
                      !.last = [op |-> "update_index", of |-> unit.last.of, id |-> id,
                                err |-> r.err]]
    /\ UNCHANGED storage_vars

\* read.release(id)
CodecRelease(id) ==
    /\ unit.block # <<>>
    /\ "of" \in DOMAIN unit.last
    /\ id \in DOMAIN unit.block[1].data.index
    /\ unit' = [unit EXCEPT
                  !.block = <<release(unit.block[1], id)>>,
                  !.last = [op |-> "release", of |-> unit.last.of, id |-> id]]
    /\ UNCHANGED storage_vars

\* the block files that are also written to after they were written
NextUpdate ==
    \/ (Len(unit.written) < MaxWritten /\ CodecWrite)
    \/ \E k \in 1..Cardinality(Slots) : CodecOpen(k)
    \/ \E id \in 1..Len(TagOrder) : CodecReadIndex(id)
    \/ \E id \in 1..Len(TagOrder) : CodecUpdateIndex(id)
    \/ \E id \in 1..Len(TagOrder) : CodecRelease(id)
    \/ CodecClose

SpecUpdate == Init /\ [][NextUpdate]_vars

(* ----------------- read_indicies on one block file -------------------- *)

\* the ids of one call
MaxIds == 2
IdLists(n) == UNION {[1..k -> 1..n] : k \in 0..MaxIds}

\* the blocks the readers share: two documents, two posting lists
SharedBlocks == {data \in CodecBlocks : Len(data.index) = 2 /\ Len(data.keys) = 2}

\* <InMemoryBlock as SearchBlock>::try_get_index: the list, always
InMemoryBlock_try_get_index(self, id) == <<self.data.index[id]>>

\* a faulty read_index of an in-memory block: it reports success
InMemoryBlock_read_index_ok(self, id) ==
    [err |-> FALSE, panic |-> FALSE, block |-> self]

\* <InMemoryBlock as SearchBlock>::read_index:
\* Err(anyhow!("shouldn't call read_index on in memory block"))
InMemoryBlock_read_index(self, id) ==
    [err |-> TRUE, panic |-> FALSE, block |-> self]

\* get_type() of a dyn SearchBlock
IsInMemory(block) == "header" \notin DOMAIN block

\* the calls through dyn SearchBlock
SearchBlock_try_get_index(block, id) ==
    IF IsInMemory(block) THEN InMemoryBlock_try_get_index(block, id)
    ELSE try_get_index(block, id)

SearchBlock_read_index(block, file, id) ==
    IF IsInMemory(block)
    THEN LET r == InMemoryBlock_read_index(block, id)
         IN  [err |-> r.err, panic |-> r.panic, block |-> r.block, file |-> file]
    ELSE LET r == read_index(block, file, id)
         IN  [err |-> r.err, panic |-> FALSE, block |-> r.block, file |-> r.file]

\* for i in skipped.iter() { block.read_index(ids[*i])?; }
RECURSIVE read_each(_, _, _)
read_each(self, file, ids) ==
    IF ids = <<>> THEN [err |-> FALSE, panic |-> FALSE, block |-> self, file |-> file]
    ELSE LET r == SearchBlock_read_index(self, file, Head(ids))
         IN  IF r.err \/ r.panic THEN r ELSE read_each(r.block, r.file, Tail(ids))

\* the size of a sealed block of the given data
RECURSIVE IndexPairs(_)
IndexPairs(index) ==
    IF index = <<>> THEN 0 ELSE Len(Head(index)) + IndexPairs(Tail(index))

\* an in-memory block is shared: Arc::new(RwLock::new(block))
ReadersShareInMemory ==
    /\ unit.last.op = "none"
    /\ \E data \in SharedBlocks :
          unit' = [unit EXCEPT
                     !.written = <<[data |-> data]>>,
                     !.block = <<[data |-> data, size |-> IndexPairs(data.index)]>>,
                     !.last = [op |-> "shared"]]
    /\ UNCHANGED storage_vars

\* block.write().unwrap().read_index(id), called on the shared block by a
\* caller of its own
ReaderReadIndex(r) ==
    /\ unit.last.op = "shared"
    /\ unit.readers[r].pc = "idle"
    /\ unit.lock.w = {}
    /\ unit.lock.r = {}
    /\ \E id \in DOMAIN unit.block[1].data.index :
          LET f == SearchBlock_read_index(unit.block[1], unit.file, id)
          IN  unit' = [unit EXCEPT
                         !.block = <<f.block>>,
                         !.file = f.file,
                         !.readers[r] = [NoReader EXCEPT
                                           !.ids = <<id>>,
                                           !.pc = IF f.panic THEN "direct_panic"
                                                  ELSE IF f.err THEN "direct_err"
                                                  ELSE "direct_ok"]]
    /\ UNCHANGED storage_vars

\* a block is written to a new file and read back, and some of its lists
\* are loaded, before it is shared: Arc::new(RwLock::new(block))
ReadersShare ==
    /\ unit.last.op = "none"
    /\ \E data \in SharedBlocks, before \in IdLists(2) :
          LET w == write_impl(data, Cursor_new)
              h == read_header(w.output, 0)
              m == read_meta(h.header[1], h.input)
              c == read_each(m.block[1], m.file, before)
          IN  unit' = [unit EXCEPT
                         !.file = c.file,
                         !.written = <<[header |-> w.header, data |-> data]>>,
                         !.block = <<c.block>>,
                         !.last = [op |-> "shared"]]
    /\ UNCHANGED storage_vars

\* read_indicies(block, ids) is called
ReaderCall(r) ==
    /\ unit.last.op = "shared"
    /\ unit.readers[r].pc = "idle"
    /\ \E ids \in IdLists(Len(unit.block[1].data.index)) :
          unit' = [unit EXCEPT
                     !.readers[r] = [NoReader EXCEPT
                                       !.pc = "read", !.ids = ids,
                                       !.res = [k \in DOMAIN ids |-> <<>>]]]
    /\ UNCHANGED storage_vars

\* let block = block.read().unwrap()
ReaderLockShared(r) ==
    /\ unit.readers[r].pc = "read"
    /\ unit.lock.w = {}
    /\ unit' = [unit EXCEPT !.readers[r].pc = "scan", !.lock.r = @ \cup {r}]
    /\ UNCHANGED storage_vars

\* a faulty condition: the exclusive lock is taken in every call
read_indicies_upgrade_always(skipped) == TRUE

\* if !skipped.is_empty()
read_indicies_upgrade(skipped) == skipped # <<>>

\* the loop under the shared lock, which is dropped at the end of the scope
ReaderScan(r) ==
    /\ unit.readers[r].pc = "scan"
    /\ LET ids == unit.readers[r].ids
           res == [k \in DOMAIN ids |->
                      SearchBlock_try_get_index(unit.block[1], ids[k])]
           skipped == SelectSeq([k \in DOMAIN ids |-> k], LAMBDA k : res[k] = <<>>)
       IN  unit' = [unit EXCEPT
                      !.readers[r].res = res,
                      !.readers[r].skipped = skipped,
                      !.readers[r].missed = \E k \in DOMAIN ids : res[k] = <<>>,
                      !.readers[r].pc = IF read_indicies_upgrade(skipped)
                                        THEN "upgrade" ELSE "ok",
                      !.lock.r = @ \ {r}]
    /\ UNCHANGED storage_vars

\* let mut block = block.write().unwrap()
ReaderLockExclusive(r) ==
    /\ unit.readers[r].pc = "upgrade"
    /\ unit.lock.w = {}
    /\ unit.lock.r = {}
    /\ unit' = [unit EXCEPT
                  !.readers[r].pc = "fill",
                  !.readers[r].exclusive = TRUE,
                  !.lock.w = {r}]
    /\ UNCHANGED storage_vars

\* the two loops under the exclusive lock: read_index of every list that was
\* missing (an error returns at once), then try_get_index of each of them
ReaderFill(r) ==
    /\ unit.readers[r].pc = "fill"
    /\ LET s == unit.readers[r]
           f == read_each(unit.block[1], unit.file,
                          [k \in DOMAIN s.skipped |-> s.ids[s.skipped[k]]])
       IN  unit' = [unit EXCEPT
                      !.block = <<f.block>>,
                      !.file = f.file,
                      !.lock.w = {},
                      !.readers[r].pc = IF f.panic THEN "panic"
                                        ELSE IF f.err THEN "err" ELSE "ok",
                      !.readers[r].res =
                          IF f.err \/ f.panic THEN @
                          ELSE [k \in DOMAIN s.ids |->
                                   IF k \in Range(s.skipped)
                                   THEN SearchBlock_try_get_index(f.block, s.ids[k])
                                   ELSE @[k]]]
    /\ UNCHANGED storage_vars

\* the caller has the result
ReaderReturn(r) ==
    /\ unit.readers[r].pc \in {"ok", "err", "direct_ok", "direct_err"}
    /\ unit' = [unit EXCEPT !.readers[r] = NoReader]
    /\ UNCHANGED storage_vars

NextReaders ==
    \/ ReadersShare
    \/ ReadersShareInMemory
    \/ \E r \in Readers :
          \/ ReaderReadIndex(r)
          \/ ReaderCall(r)
          \/ ReaderLockShared(r)
          \/ ReaderScan(r)
          \/ ReaderLockExclusive(r)
          \/ ReaderFill(r)
          \/ ReaderReturn(r)

SpecReaders == Init /\ [][NextReaders]_vars

(* -------------------------- reading it back --------------------------- *)

\* the documents of a yielded block, in the order of its keys, each with the
\* set of the tags whose posting list holds its ordinal
DocsOf(view) ==
    [k \in 1..Len(view.data.keys) |->
        [key  |-> view.data.keys[k],
         tags |-> {view.data.tags[j] : j \in
                     {j \in DOMAIN view.data.tags :
                         \E n \in DOMAIN view.data.index[j] :
                             view.data.index[j][n] = k - 1}}]]

\* the yielded blocks concatenated oldest first (the reverse of yield order)
RECURSIVE ReadAll(_)
ReadAll(yielded) ==
    IF yielded = <<>> THEN <<>> ELSE ReadAll(Tail(yielded)) \o DocsOf(Head(yielded))

\* the first n pushed documents, each with its tag set
PushedDocs(n) == [k \in 1..n |-> [key |-> pushed[k].key, tags |-> Range(pushed[k].tags)]]

KeysOf(docs) == {docs[k].key : k \in DOMAIN docs}

\* the documents the three tiers hold, oldest first
TierDocs ==
    ReadAll(<<SearchBlock("InMemory", ActiveBlock_into_block(active_block))>>
            \o Reverse([k \in DOMAIN compact_list |-> SearchBlock("InMemory", compact_list[k])])
            \o Reverse([k \in DOMAIN block_files |-> SearchBlock("File", block_files[k])]))

\* no save is in flight and no push is under way
Quiescent ==
    /\ worker.pc \in {"loop", "notified", "exited", "panicked"}
    /\ \A p \in Pushers : pusher[p] = "idle"

\* what an iterator that locked snap, cl and bf is to yield, in order
Expected(i) ==
    [k \in DOMAIN seen[i].snap |->
        SearchBlock("InMemory", ActiveBlock_into_block(seen[i].snap[k]))]
    \o Reverse([k \in DOMAIN seen[i].cl |-> SearchBlock("InMemory", seen[i].cl[k])])
    \o Reverse([k \in DOMAIN seen[i].bf |-> SearchBlock("File", seen[i].bf[k])])

IsPrefix(s, t) == Len(s) <= Len(t) /\ s = SubSeq(t, 1, Len(s))

\* the participants of the lock protocol and the tier lock each waits for
Participants == Pushers \cup {"save"} \cup DOMAIN iter
Wants(x) ==
    IF x \in Pushers THEN (IF pusher[x] = "acquire" THEN "active_block" ELSE "none")
    ELSE IF x = "save"
    THEN CASE worker.pc = "save_active" -> "active_block"
           [] worker.pc = "save_compact" -> "compact_list"
           [] worker.pc = "save_files" -> "block_files"
           [] OTHER -> "none"
    ELSE CASE iter[x].cur = "Active" -> StorageIter_lock("Active")
           [] iter[x].cur = "ActiveLocked" -> StorageIter_lock("ActiveLocked")
           [] iter[x].cur = "InMemory" /\ iter[x].idx = 0 -> StorageIter_lock("InMemory")
           [] OTHER -> "none"
WriteHolder(t) == IF lock_w[t] = "none" THEN {} ELSE {lock_w[t]}
\* who keeps x from its lock: for a writer the holders; for a reader the
\* writer holding it and, the lock preferring writers, the writers waiting
Blockers(x) ==
    IF Wants(x) = "none" THEN {}
    ELSE IF x \in DOMAIN iter
    THEN WriteHolder(Wants(x)) \cup {y \in Pushers \cup {"save"} : Wants(y) = Wants(x)}
    ELSE WriteHolder(Wants(x)) \cup lock_r[Wants(x)]
Blocked(x) == Blockers(x) # {}
\* every member waits for a lock that another member keeps from it
Deadlocked(D) == D # {} /\ \A x \in D : Blockers(x) \cap D # {}

(* ------------------------------- claims ------------------------------- *)

\* C1: with no failed flush, an iterator read to exhaustion with no push
\* since it started reconstructs exactly the documents pushed so far: the
\* yielded blocks, oldest first, give the pushed documents in insertion
\* order, each once, each with the tag set it was pushed with.
C1_EndToEnd ==
    \A i \in Iters :
        (seen[i].exhausted /\ ~flush_failed /\ seen[i].at_lock = Len(pushed))
            => ReadAll(seen[i].yielded) = PushedDocs(Len(pushed))

\* C2: under fair scheduling a push / push_batch that has been called
\* returns, unless a stop is signalled meanwhile; a push that found the
\* active block full yields only until the worker has rotated the block.
C2_PushReturns ==
    \A p \in Pushers : (pusher[p] # "idle") ~> (pusher[p] = "idle" \/ stopped)

\* C3: with no failed flush, an iterator that has come to its end was given
\* every document pushed before it started, and when no push and no save is
\* under way the tiers hold as many documents as were pushed.
C3_NothingMissed ==
    /\ \A i \in Iters :
          (~flush_failed /\ (seen[i].exhausted \/ iter[i].cur = "Panicked"))
              => KeysOf(PushedDocs(seen[i].at_lock)) \subseteq KeysOf(ReadAll(seen[i].yielded))
    /\ (~flush_failed /\ Quiescent) => Len(TierDocs) = Len(pushed)

\* C4: whatever save_active did between its next() calls, an iterator read
\* to exhaustion was given no document in two blocks, and every document
\* that was in a tier (or on its way from one tier to the next) when the
\* iterator took its first lock is in a block it was given.
C4_AtomicHandOff ==
    \A i \in Iters :
        seen[i].exhausted =>
            /\ Cardinality(KeysOf(ReadAll(seen[i].yielded))) = Len(ReadAll(seen[i].yielded))
            /\ seen[i].live \subseteq KeysOf(ReadAll(seen[i].yielded))

\* C5: once the stop future has been polled, whatever the worker was doing,
\* the flag is set and the stop future completes in the end (the worker
\* having seen the flag and exited).
C5_StopCompletes ==
    /\ [](stop # "new" => stopped)
    /\ (stop # "new") ~> (stop = "done")

\* C6: once the stop future has completed, the handle Storage::new returned
\* is the only owner of the storage left.
C6_SoleOwner == stop = "done" => owners = {"handle"}

\* the stop future completed after a save had flushed a block
C6_Witness == stop = "done" /\ block_files # <<>>

\* C7: the pusher closure is applied only to an active block below
\* max_active_size, so the block never grows beyond max_active_size - 1 plus
\* the (document, tag) pairs of the push or batch applied last.
C7_NoPushOnFull ==
    /\ last_push.before < max_active_size
    /\ ActiveBlock_size(active_block) <= max_active_size - 1 + last_push.pairs

\* a batch has overshot the limit and another push is yielding on the full block
C7_Witness ==
    /\ ActiveBlock_size(active_block) > max_active_size
    /\ last_push.before > 0
    /\ \E p \in Pushers : pusher[p] = "yield"

\* C8: an iterator yields the sealed snapshot of the active block, then
\* compact_list newest to oldest, then block_files newest to oldest, and
\* nothing else: what it has yielded is always a prefix of that sequence, as
\* long as its position in the tier it is in says, and at exhaustion (and
\* ever after) it is the whole sequence.
C8_IterationOrder ==
    \A i \in Iters :
        /\ IsPrefix(seen[i].yielded, Expected(i))
        /\ iter[i].cur = "InMemory" =>
               Len(seen[i].yielded) = 1 + Len(seen[i].cl) - iter[i].idx
        /\ iter[i].cur = "File" =>
               Len(seen[i].yielded) = 1 + Len(seen[i].cl) + Len(seen[i].bf) - iter[i].idx
        /\ seen[i].exhausted =>
               /\ seen[i].yielded = Expected(i)
               /\ Len(seen[i].yielded) = 1 + Len(seen[i].cl) + Len(seen[i].bf)

\* an iterator is exhausted after two block files, newest first, behind the
\* snapshot of an empty active block
C8_Witness ==
    \E i \in Iters :
        /\ seen[i].exhausted
        /\ Len(seen[i].bf) = 2
        /\ seen[i].snap = <<ActiveBlock_default>>
        /\ Len(seen[i].yielded) = 3

\* C9: no set of pushers, save_active and iterators is ever in a state where
\* each waits for a tier lock that another of the set keeps from it (with
\* two pushers, the save and two iterators: SpecTwo).
C9_NoDeadlock == \A D \in SUBSET Participants : ~Deadlocked(D)

\* save_active, holding active_block, waits for compact_list behind an
\* iterator while a pusher and the other iterator wait for active_block
C9_Witness ==
    /\ worker.pc = "save_compact"
    /\ lock_r["compact_list"] # {}
    /\ \E p \in Pushers : Blocked(p)
    /\ \E i \in DOMAIN iter : iter[i].cur = "Active" /\ Blocked(i)

\* C10: a compaction about to run while a reader holds a handle of a
\* compact_list block does not panic because of the handle.
C10_HandlesOutlive ==
    (worker.pc = "save_compact" /\ WriteFree("compact_list")) =>
        \A debug \in Builds :
            LET list == Append(compact_list, ActiveBlock_into_block(worker.old_active))
            IN  Storage_compact(list, handles, debug).panic
                    => Storage_compact(list, {}, debug).panic

(* ----------------------- claims about the blocks ---------------------- *)

NonDecreasing(s) == \A i \in 1..(Len(s) - 1) : s[i] <= s[i + 1]
StrictlyIncreasing(s) == \A i \in 1..(Len(s) - 1) : s[i] < s[i + 1]

RECURSIVE Concat(_)
Concat(seqs) == IF seqs = <<>> THEN <<>> ELSE Head(seqs) \o Concat(Tail(seqs))

\* the place of a tag in the order of the strings
TagRank(t) == CHOOSE i \in DOMAIN TagOrder : TagOrder[i] = t
Ascending(tags) ==
    \A i \in DOMAIN tags, j \in DOMAIN tags : i < j => TagRank(tags[i]) < TagRank(tags[j])

\* the timestamps of block_files, then compact_list, then the active block
TierTimestamps ==
    Concat([k \in DOMAIN block_files |-> block_files[k].data.timestamps])
    \o Concat([k \in DOMAIN compact_list |-> compact_list[k].data.timestamps])
    \o active_block.timestamps

\* C11: whatever the clock read at each push, the timestamps of the tiers
\* read block_files, compact_list, active block are non-decreasing (so the
\* ranges of adjacent blocks do not overlap), the compaction a save is about
\* to run does not panic on intersecting blocks, and the block a save is
\* about to flush begins no earlier than the last block file ends.
C11_GlobalTimeOrder ==
    /\ NonDecreasing(TierTimestamps)
    /\ worker.pc = "save_compact" =>
           \A debug \in Builds :
               ~Storage_compact(Append(compact_list,
                                       ActiveBlock_into_block(worker.old_active)),
                                {}, debug).panic
    /\ (worker.pc = "write_block" /\ worker.new_block # <<>>) =>
           write_block_assert(worker.new_block[1], block_files)

\* C12: after any pushes into one active block, whatever the clock read
\* (also when it went backwards), the timestamps are non-decreasing, one per
\* document, and each is at least the clock reading of its own push.
C12_MonotoneTimestamps ==
    /\ Len(unit.active.timestamps) = Len(unit.docs)
    /\ NonDecreasing(unit.active.timestamps)
    /\ \A k \in DOMAIN unit.docs : unit.active.timestamps[k] >= unit.docs[k].now

\* the clock went backwards between two pushes into the block
C12_Witness ==
    \E k \in 1..(Len(unit.docs) - 1) :
        /\ unit.docs[k].now > unit.docs[k + 1].now
        /\ unit.active.timestamps[k + 1] > unit.docs[k + 1].now

\* the ordinals, in push order, of the documents of docs that carry tag, a
\* document being listed once for each time its list names the tag
RECURSIVE Carriers(_, _)
Carriers(docs, tag) ==
    IF docs = <<>> THEN <<>>
    ELSE LET times == Cardinality({j \in DOMAIN Last(docs).tags : Last(docs).tags[j] = tag})
         IN  Carriers(Front(docs), tag) \o [n \in 1..times |-> Len(docs) - 1]

RECURSIVE TagCount(_)
TagCount(docs) == IF docs = <<>> THEN 0 ELSE Len(Head(docs).tags) + TagCount(Tail(docs))

\* C13: into_block of an active block gives the distinct pushed tags in
\* strictly ascending order, the keys in insertion order, for each tag the
\* ordinals in push order of the documents that carry it, and as size the
\* sum of the documents' tag counts (a document with no tag adds a key only).
C13_Sealing ==
    unit.last.op = "into_block" =>
        LET docs == unit.last.docs
            out == unit.last.out
        IN  /\ Range(out.data.tags) = UNION {Range(docs[k].tags) : k \in DOMAIN docs}
            /\ Ascending(out.data.tags)
            /\ out.data.keys = [k \in DOMAIN docs |-> docs[k].key]
            /\ DOMAIN out.data.index = DOMAIN out.data.tags
            /\ \A i \in DOMAIN out.data.tags :
                   out.data.index[i] = Carriers(docs, out.data.tags[i])
            /\ out.size = TagCount(docs)

\* a block of three documents is sealed, one with no tag, one with three
C13_Witness ==
    /\ unit.last.op = "into_block"
    /\ Len(unit.last.docs) = 3
    /\ \E k \in DOMAIN unit.last.docs : unit.last.docs[k].tags = <<>>
    /\ \E k \in DOMAIN unit.last.docs : Len(unit.last.docs[k].tags) = 3

\* the posting list of a tag in a block, empty when the block has no such tag
Posting(data, tag) ==
    IF \E i \in DOMAIN data.tags : data.tags[i] = tag
    THEN data.index[CHOOSE i \in DOMAIN data.tags : data.tags[i] = tag]
    ELSE <<>>
Shifted(list, n) == [k \in DOMAIN list |-> list[k] + n]
\* A ends no later than B begins
Precedes(A, B) == Last(A.timestamps) <= Head(B.timestamps)
\* the last function applied was a merge of two blocks that have documents
MergedTwo ==
    /\ unit.last.op = "merge"
    /\ unit.last.self.data.keys # <<>>
    /\ unit.last.other.data.keys # <<>>

\* C14: for non-empty A and B with A.last <= B.first, A.merge(B) has A's
\* keys then B's, A's timestamps then B's, as tags the strictly ascending
\* union of both tag sets, and for every tag A's posting list (empty if A
\* has none) followed by B's with |A.keys| added to every ordinal.
C14_MergeResult ==
    (MergedTwo /\ Precedes(unit.last.self.data, unit.last.other.data)) =>
        LET A == unit.last.self.data
            B == unit.last.other.data
            M == unit.last.out.data
        IN  /\ ~unit.last.panicked
            /\ M.keys = A.keys \o B.keys
            /\ M.timestamps = A.timestamps \o B.timestamps
            /\ Range(M.tags) = Range(A.tags) \cup Range(B.tags)
            /\ Ascending(M.tags)
            /\ DOMAIN M.index = DOMAIN M.tags
            /\ \A i \in DOMAIN M.tags :
                   M.index[i] = Posting(A, M.tags[i])
                                \o Shifted(Posting(B, M.tags[i]), Len(A.keys))

\* A of two documents is merged with a B that follows it; they share a tag
\* and B has a tag that A has not
C14_Witness ==
    /\ MergedTwo
    /\ Precedes(unit.last.self.data, unit.last.other.data)
    /\ Len(unit.last.self.data.keys) = 2
    /\ Range(unit.last.self.data.tags) \cap Range(unit.last.other.data.tags) # {}
    /\ Range(unit.last.other.data.tags) \ Range(unit.last.self.data.tags) # {}

\* the two operands of the last merge, in both orders
OperandPairs ==
    {<<unit.last.self.data, unit.last.other.data>>,
     <<unit.last.other.data, unit.last.self.data>>}

\* C15 as stated: for non-empty A and B with A.last <= B.first (equality
\* included), the merge gives A's keys followed by B's keys whichever of the
\* two is self.
C15_MergeOrderIndependence ==
    MergedTwo =>
        \A pair \in OperandPairs :
            Precedes(pair[1], pair[2]) =>
                /\ ~unit.last.panicked
                /\ unit.last.out.data.keys = pair[1].keys \o pair[2].keys

\* C15 as amended: the same when moreover A begins before B ends
\* (A.first < B.last), that is unless both blocks carry one and the same
\* timestamp throughout.
C15_MergeOrderStrict ==
    MergedTwo =>
        \A pair \in OperandPairs :
            (Precedes(pair[1], pair[2])
                 /\ Head(pair[1].timestamps) < Last(pair[2].timestamps)) =>
                /\ ~unit.last.panicked
                /\ unit.last.out.data.keys = pair[1].keys \o pair[2].keys

\* the later block was self, the earlier one other, and the earlier one ends
\* at the very timestamp the later one begins with
C15_Witness ==
    /\ MergedTwo
    /\ Last(unit.last.other.data.timestamps) = Head(unit.last.self.data.timestamps)
    /\ Head(unit.last.other.data.timestamps) < Last(unit.last.self.data.timestamps)
    /\ unit.last.out.data.keys = unit.last.other.data.keys \o unit.last.self.data.keys

\* C16: a merge of two non-empty blocks panics, and gives no block, when
\* their time ranges overlap (neither ends by the time the other begins),
\* and does not panic when one range lies wholly before the other.
C16_MergeOverlap ==
    MergedTwo =>
        LET A == unit.last.self.data
            B == unit.last.other.data
        IN  unit.last.panicked <=> (~Precedes(A, B) /\ ~Precedes(B, A))

\* a merge of overlapping blocks has panicked
C16_Witness ==
    /\ MergedTwo
    /\ unit.last.panicked
    /\ unit.first = InMemoryBlock_empty
    /\ unit.second = InMemoryBlock_empty

\* C17: a merge in which one operand has no documents returns the other
\* operand X as it was: tags, keys, timestamps, index and size.
C17_MergeIdentity ==
    (unit.last.op = "merge"
         /\ (unit.last.self.data.keys = <<>> \/ unit.last.other.data.keys = <<>>)) =>
        LET X == IF unit.last.self.data.keys = <<>> THEN unit.last.other
                 ELSE unit.last.self
        IN  /\ ~unit.last.panicked
            /\ unit.last.out.data.tags = X.data.tags
            /\ unit.last.out.data.keys = X.data.keys
            /\ unit.last.out.data.timestamps = X.data.timestamps
            /\ unit.last.out.data.index = X.data.index
            /\ unit.last.out.size = X.size

\* a block with no documents was merged, as self, with a block of two
\* documents and their tags
C17_Witness ==
    /\ unit.last.op = "merge"
    /\ unit.last.self.data.keys = <<>>
    /\ Len(unit.last.other.data.keys) = 2
    /\ unit.last.other.size > 0

\* |tags| = |index|, |keys| = |timestamps|, every ordinal below |keys|
WellFormed(data) ==
    /\ Len(data.tags) = Len(data.index)
    /\ Len(data.keys) = Len(data.timestamps)
    /\ \A i \in DOMAIN data.index :
           \A n \in DOMAIN data.index[i] :
               data.index[i][n] >= 0 /\ data.index[i][n] < Len(data.keys)

\* C18: every block that sealing and merging give (the sealed snapshot of
\* the active block, the two blocks at hand, the result of the last merge)
\* has |tags| = |index|, |keys| = |timestamps| and every ordinal of every
\* posting list below |keys|.
C18_WellFormed ==
    /\ WellFormed(ActiveBlock_into_block(unit.active).data)
    /\ WellFormed(unit.first.data)
    /\ WellFormed(unit.second.data)
    /\ unit.last.op \in {"into_block", "merge"} => WellFormed(unit.last.out.data)

\* a block merged of two blocks with documents was merged with a third
C18_Witness ==
    /\ MergedTwo
    /\ ~unit.last.panicked
    /\ Len(unit.last.out.data.keys) = 3
    /\ Len(unit.last.other.data.keys) = 1
    /\ Len(unit.last.out.data.tags) = 3

\* C19: every posting list of the active block, of the sealed blocks and of
\* the merged blocks is strictly increasing, also when a document's tag list
\* repeats a tag.
C19_StrictPostings ==
    /\ \A t \in DOMAIN unit.active.index : StrictlyIncreasing(unit.active.index[t])
    /\ \A slot \in Slots :
           \A i \in DOMAIN unit[slot].data.index :
               StrictlyIncreasing(unit[slot].data.index[i])

\* C20: a block written where the stream stands (at 0, or behind another
\* block) is read back as it was: read_header at its start and read_meta
\* succeed and give its tags, keys and timestamps, header.from and header.to
\* are its first and last timestamp (0 for none), every posting list that
\* read_index has loaded is the list written, and after read_all all are
\* loaded: the prefix sum undoes the delta encoding.
C20_RoundTrip ==
    /\ unit.last.op \in {"read_meta", "read_index", "read_all"} => ~unit.last.err
    /\ unit.last.op = "read_meta" => ~unit.last.debug_panic
    /\ unit.block # <<>> =>
           LET read == unit.block[1]
               B == unit.written[unit.last.of].data
           IN  /\ read.data.tags = B.tags
               /\ read.data.keys = B.keys
               /\ read.data.timestamps = B.timestamps
               /\ read.header.from = (IF B.timestamps = <<>> THEN 0 ELSE Head(B.timestamps))
               /\ read.header.to = (IF B.timestamps = <<>> THEN 0 ELSE Last(B.timestamps))
               /\ DOMAIN read.data.index = DOMAIN B.index
               /\ \A i \in DOMAIN B.index : read.data.index[i] \in {<<>>, <<B.index[i]>>}
               /\ unit.last.op = "read_all" =>
                      \A i \in DOMAIN B.index : read.data.index[i] = <<B.index[i]>>

\* the second block of the stream was read back whole: an empty posting list
\* and one of three ordinals that take one, two and three bytes
C20_Witness ==
    /\ unit.last.op = "read_all"
    /\ unit.last.of = 2
    /\ unit.written[2].header.start > 0
    /\ unit.block[1].data.index = <<<<<<>>>>, <<<<1, 200, 300>>>>>>

\* the bytes of a block in the stream, from its start to its end
Region(header) == header.start .. (header.start + header.size - 1)

\* where the sections of a block are, the header's own bytes first
Sections(header) ==
    {header.start + n : n \in 0..(rmp_header_len(header) - 1)}
        \cup {header.tags, header.keys, header.timestamps}
        \cup Range(header.index)

\* C21: blocks written one after another into one stream: every write
\* succeeds and leaves the stream at start + size, the next block starts
\* where the one before ends, the regions of two blocks share no byte and
\* hold all the sections of their block, and read_header at the block's start,
\* read_meta and read_all give back the header and the data written, whatever
\* was written behind the block.
C21_MultiBlock ==
    /\ unit.last.op = "write" =>
           /\ ~unit.last.panicked
           /\ Last(unit.written).header.start = unit.last.start
           /\ unit.file.pos = unit.last.start + Last(unit.written).header.size
    /\ \A k \in DOMAIN unit.written :
           /\ Sections(unit.written[k].header) \subseteq Region(unit.written[k].header)
           /\ k > 1 =>
                  /\ unit.written[k].header.start =
                         unit.written[k - 1].header.start + unit.written[k - 1].header.size
                  /\ Region(unit.written[k].header)
                         \cap Region(unit.written[k - 1].header) = {}
    /\ unit.last.op = "read_all" =>
           /\ ~unit.last.err
           /\ unit.block[1].header = unit.written[unit.last.of].header
           /\ unit.block[1].data =
                  [unit.written[unit.last.of].data EXCEPT
                      !.index = [i \in DOMAIN @ |-> <<@[i]>>]]

\* the first of two blocks was read back whole after the second was written
\* behind it
C21_Witness ==
    /\ unit.last.op = "read_all"
    /\ unit.last.of = 1
    /\ Len(unit.written) = 2
    /\ unit.written[2].data.keys # <<>>
    /\ unit.block[1].header.size > 0
    /\ unit.block[1].data.index = <<<<<<0, 2, 3>>>>, <<<<1, 1>>>>>>

\* C22: the serialised header of n offsets, whatever the values of its
\* numbers up to u64::MAX, takes at most header_size(n) bytes; the header of
\* a block written lies before the tags section, which starts header_size(n)
\* bytes behind the block's start, and the assertion 'header has overwritten
\* data' holds.
C22_HeaderSizeBound ==
    /\ unit.last.op = "to_vec" => unit.last.len <= header_size(unit.last.n)
    /\ unit.last.op = "write" =>
           LET header == Last(unit.written).header
           IN  /\ ~unit.last.panicked
               /\ header.tags = header.start + header_size(Len(header.index))
               /\ header.start + rmp_header_len(header) <= header.tags

\* a header of 1024 * 1024 offsets, every number of it nine bytes long, fills
\* the room to the last byte
C22_Witness ==
    /\ unit.last.op = "to_vec"
    /\ unit.last.n = 1024 * 1024
    /\ unit.last.len = header_size(unit.last.n)

\* C23: the block that read_meta gives has no posting list loaded
\* (try_get_index gives none for every tag); read_index(i) of a list not
\* loaded loads list i and leaves the other lists, the tags, keys, timestamps
\* and the header as they were; read_index(i) of a loaded list succeeds and
\* changes neither the stream nor the block.
C23_LazyIndex ==
    [][/\ unit'.last.op = "read_meta" /\ ~unit'.last.err =>
              \A i \in DOMAIN unit'.block[1].data.index :
                  try_get_index(unit'.block[1], i) = <<>>
       /\ unit'.last.op = "read_index" =>
              LET i == unit'.last.id
                  old == unit.block[1]
                  new == unit'.block[1]
              IN  /\ ~unit'.last.err
                  /\ try_get_index(new, i) # <<>>
                  /\ new = [old EXCEPT !.data.index[i] = try_get_index(new, i)]
                  /\ try_get_index(old, i) # <<>> =>
                         /\ new = old
                         /\ unit'.file = unit.file]_vars

\* read_index of a loaded list while the stream stands behind another list
C23_Witness ==
    /\ unit.last.op = "read_index"
    /\ unit.last.cached
    /\ unit.file.pos # unit.block[1].header.index[unit.last.id]
                          + unit.file.items[unit.block[1].header.index[unit.last.id]].len
    /\ try_get_index(unit.block[1], unit.last.id) = <<<<0, 2, 3>>>>
    /\ \E j \in DOMAIN unit.block[1].data.index :
           try_get_index(unit.block[1], j) = <<<<1, 200, 300>>>>

\* C24: a call of read_indicies that returns gives one list for each id, the
\* k-th being the block's posting list of ids[k], whether the id is repeated
\* or not and whichever lists were loaded before; no call fails; a caller
\* takes the exclusive lock only if one of its lists was missing under the
\* shared lock; with two callers on one block at a time.
C24_ReadIndices ==
    \A r \in Readers :
        LET s == unit.readers[r]
        IN  /\ s.pc # "err"
            /\ s.pc = "ok" =>
                   /\ Len(s.res) = Len(s.ids)
                   /\ \A k \in DOMAIN s.ids :
                          s.res[k] = <<unit.written[1].data.index[s.ids[k]]>>
            /\ (s.exclusive \/ unit.lock.w = {r}) => s.missed
            /\ s.pc = "upgrade" => s.missed

\* both callers asked for the first list twice, both found it missing under
\* the shared lock and took the exclusive lock one after the other, and both
\* have their result
C24_Witness ==
    /\ \A r \in Readers :
           /\ unit.readers[r].pc = "ok"
           /\ unit.readers[r].ids = <<1, 1>>
           /\ unit.readers[r].exclusive
    /\ unit.written[1].data.index[1] = <<0, 2, 3>>
    /\ try_get_index(unit.block[1], 2) = <<>>

\* C25: the step of save_active in which try_write fails (the first such
\* step of a run): save_active returns without a panic, dropping its guard
\* and its Arc and poisoning no lock; block_files and compact_list are as
\* before and neither holds the block, so no tier holds its documents; the
\* push callers and the active block are untouched.
C25_FlushFailureTolerated ==
    [][(~flush_failed /\ flush_failed') =>
          /\ worker.pc = "write_block"
          /\ worker.new_block # <<>>
          /\ worker'.pc = "loop"
          /\ owners' = owners \ {"save"}
          /\ poisoned' = poisoned
          /\ lock_w' = [lock_w EXCEPT !["block_files"] = "none"]
          /\ block_files' = block_files
          /\ compact_list' = compact_list
          /\ worker.new_block[1] \notin Range(compact_list')
          /\ [data |-> worker.new_block[1].data] \notin Range(block_files')
          /\ Range(worker.new_block[1].data.keys) \cap LiveKeys' = {}
          /\ pusher' = pusher
          /\ active_block' = active_block]_vars

\* after a failed flush, whose documents no tier holds, a document pushed
\* later was saved and flushed to a block file, and no push is under way
C25_Witness ==
    /\ flush_failed
    /\ \A p \in Pushers : pusher[p] = "idle"
    /\ worker.pc \in {"loop", "notified"}
    /\ \E lost \in 1..Len(pushed) :
          /\ lost \notin LiveKeys
          /\ \E k \in DOMAIN block_files :
                 \E later \in Range(block_files[k].data.keys) : later > lost

\* C26: the save worker leaves its loop only after the stop flag was set:
\* a worker task that has returned implies a stop signalled before.
C26_WorkerOutlivesStop ==
    worker.pc = "exited" => stopped

\* C27: once stop is signalled (the flag stored and the notifier broadcast)
\* the worker starts no run of save_active.
C27_NoSaveAfterStop ==
    [][(stopped /\ stop \in {"join", "done"}) =>
          ~(worker.pc # "save_active" /\ worker'.pc = "save_active")]_vars

\* the place of a tier in the order, the tier after it, the tier locks a
\* participant holds
TierRank(t) ==
    CASE t = "active_block" -> 1 [] t = "compact_list" -> 2 [] OTHER -> 3
TierAfter(t) == IF t = "active_block" THEN "compact_list" ELSE "block_files"
Held(x) == {t \in Tiers : lock_w[t] = x \/ x \in lock_r[t]}
Over(x) ==
    IF x = "save" THEN worker.pc \in {"loop", "panicked"}
    ELSE iter[x].cur \in {"None", "Panicked"}

\* C28: save_active and every iterator ask for a tier lock only with nothing
\* in hand or with the lock of an earlier tier in hand; save_active holds,
\* for writing, active_block, then compact_list, then block_files, an
\* iterator the same for reading, and whoever gives up active_block or
\* compact_list without being over (returned, dropped or panicked) has the
\* lock of the next tier by then; a pusher holds the active lock or none.
C28_LockOrder ==
    /\ [](/\ \A x \in {"save"} \cup DOMAIN iter :
                (Wants(x) # "none" /\ Held(x) # {}) =>
                    \A h \in Held(x) : TierRank(h) < TierRank(Wants(x))
          /\ Held("save") = (CASE worker.pc = "save_compact" -> {"active_block"}
                               [] worker.pc = "save_files" -> {"compact_list"}
                               [] worker.pc = "write_block" -> {"block_files"}
                               [] OTHER -> {})
          /\ \A i \in DOMAIN iter :
                /\ Held(i) = (CASE iter[i].cur = "ActiveLocked" -> {"active_block"}
                                [] iter[i].cur = "InMemory" -> {"compact_list"}
                                [] iter[i].cur = "File" -> {"block_files"}
                                [] OTHER -> {})
                /\ \A t \in Tiers : lock_w[t] # i
          /\ \A t \in Tiers : "save" \notin lock_r[t]
          /\ \A p \in Pushers :
                /\ Held(p) = (IF pusher[p] = "locked" THEN {"active_block"} ELSE {})
                /\ \A t \in Tiers : p \notin lock_r[t])
    /\ [][\A x \in {"save"} \cup DOMAIN iter :
             \A t \in {"active_block", "compact_list"} :
                 (t \in Held(x) /\ t \notin (Held(x))' /\ ~((Over(x))')) =>
                     TierAfter(t) \in (Held(x))']_vars

\* a pusher holds the active block while save_active, which has handed
\* it over, holds compact_list and waits for block_files, which an iterator
\* holds for reading
C28_Witness ==
    /\ worker.pc = "save_files"
    /\ \E i \in DOMAIN iter : iter[i].cur = "File"
    /\ \E p \in Pushers : pusher[p] = "locked"

RECURSIVE SizeSum(_)
SizeSum(list) == IF list = <<>> THEN 0 ELSE Head(list).size + SizeSum(Tail(list))

RECURSIVE ListKeys(_)
ListKeys(list) == IF list = <<>> THEN <<>> ELSE Head(list).data.keys \o ListKeys(Tail(list))

Suffix(list, k) == SubSeq(list, k, Len(list))

\* where the rule of the claim stops on a list: the first block from which
\* every block but the last is smaller than four times what follows it
MergeFrom(list) ==
    CHOOSE k \in 1..Len(list) :
        /\ \A j \in k..(Len(list) - 1) :
               list[j].size < 4 * SizeSum(Suffix(list, j + 1))
        /\ k > 1 => ~(list[k - 1].size < 4 * SizeSum(Suffix(list, k)))

\* C29: compaction replaces the last two blocks of the list by their merge
\* exactly while there are two and the second last is smaller than four
\* times the last: what it leaves (the block it returns included) is the
\* blocks before the merged suffix, untouched and in their order, followed by
\* one block that holds the pairs and the keys of the suffix, and there the
\* list has fewer than two blocks or the second last has at least four times
\* the size of the last.
C29_SizeRatio ==
    (unit.last.op = "compact" /\ ~unit.last.panic) =>
        LET before == unit.last.before
            final == unit.last.after \o unit.last.new_block
            k == MergeFrom(before)
        IN  /\ Len(final) = k
            /\ SubSeq(final, 1, k - 1) = SubSeq(before, 1, k - 1)
            /\ final[k].size = SizeSum(Suffix(before, k))
            /\ final[k].data.keys = ListKeys(Suffix(before, k))
            /\ Len(final) < 2 \/ final[k - 1].size >= 4 * final[k].size

\* a list of three blocks of which the last two were merged and the first,
\* of four times the size of the merge, was left alone
C29_Witness ==
    /\ unit.last.op = "compact"
    /\ ~unit.last.panic
    /\ Len(unit.last.before) = 3
    /\ Len(unit.last.after) = 2
    /\ unit.last.after[1] = unit.last.before[1]
    /\ unit.last.after[2].size
           = unit.last.before[2].size + unit.last.before[3].size
    /\ unit.last.after[1].size = 4 * unit.last.after[2].size

\* C30: after the merging, compaction removes the last block of the list and
\* returns it if and only if its size is greater than max_block_size (a
\* block of exactly max_block_size stays); otherwise the list is left as the
\* merging left it and nothing is returned; at most one block is returned,
\* and no document is lost or doubled between the list and the block.
C30_FlushDecision ==
    (unit.last.op = "compact" /\ ~unit.last.panic) =>
        LET before == unit.last.before
            after == unit.last.after
            new_block == unit.last.new_block
            k == MergeFrom(before)
            size == SizeSum(Suffix(before, k))
        IN  /\ Len(new_block) <= 1
            /\ new_block # <<>> <=> size > unit.limit
            /\ ListKeys(after \o new_block) = ListKeys(before)
            /\ new_block # <<>> =>
                   /\ new_block[1].size = size
                   /\ after = SubSeq(before, 1, k - 1)
            /\ new_block = <<>> =>
                   /\ Len(after) = k
                   /\ Last(after).size = size

\* under the larger max_block_size, the three blocks of the list were
\* merged into one of exactly max_block_size, which stayed in the list, and
\* nothing was returned
C30_Witness ==
    /\ unit.last.op = "compact"
    /\ ~unit.last.panic
    /\ unit.limit > max_block_size
    /\ Len(unit.last.before) = 3
    /\ Len(unit.last.after) = 1
    /\ Last(unit.last.after).size = unit.limit
    /\ unit.last.new_block = <<>>

\* the keys of a list of blocks, as a set
ListKeySet(list) == UNION {Range(list[i].data.keys) : i \in DOMAIN list}

\* C31: a save_active that finds the active block below max_active_size
\* returns with active_block, compact_list and block_files as they were; one
\* that finds it full leaves an empty active block (size 0, no keys), takes
\* the old contents whole, and what it then puts into compact_list (the
\* block compact returns included) is what was there and the old contents:
\* the same documents, the same number of pairs.
C31_MissedSave ==
    [][/\ (worker.pc = "save_active" /\ worker'.pc # "save_active") =>
             IF ActiveBlock_size(active_block) < max_active_size
             THEN /\ UNCHANGED tier_vars
                  /\ worker'.pc = "loop"
             ELSE /\ ActiveBlock_size(active_block') = 0
                  /\ active_block'.keys = <<>>
                  /\ active_block' = ActiveBlock_default
                  /\ worker'.old_active = active_block
                  /\ UNCHANGED <<compact_list, block_files>>
       /\ (worker.pc = "save_compact" /\ worker'.pc = "save_files") =>
             LET out == compact_list' \o worker'.new_block
             IN  /\ ListKeySet(out)
                        = ListKeySet(compact_list) \cup Range(worker.old_active.keys)
                 /\ Len(ListKeys(out))
                        = Len(ListKeys(compact_list)) + Len(worker.old_active.keys)
                 /\ SizeSum(out) = SizeSum(compact_list) + worker.old_active.size
                 /\ UNCHANGED <<active_block, block_files>>]_vars

\* a second wake-up for a block that was already rotated: the save was
\* missed, with the rotated block in compact_list or in a file
C31_Witness ==
    /\ worker.missed
    /\ compact_list # <<>> \/ block_files # <<>>
    /\ pushed # <<>>

\* C32 as it is written: read_index on an in-memory block ends the process;
\* no caller is handed a result it can recover from.
C32_ReadIndexPanics ==
    \A r \in Readers :
        (unit.block # <<>> /\ IsInMemory(unit.block[1]))
            => unit.readers[r].pc # "direct_err"

\* C32, amended: read_index on an in-memory block hands an error back to
\* its caller, panics never, and leaves the block as it was; read_indicies
\* on an in-memory block finds every list under the shared lock, so it takes
\* no exclusive lock, calls no read_index, and returns the lists.
C32_ReadIndexInMemory ==
    (unit.block # <<>> /\ IsInMemory(unit.block[1])) =>
        /\ unit.block[1].data = unit.written[1].data
        /\ unit.lock.w = {}
        /\ \A r \in Readers :
               LET s == unit.readers[r]
               IN  /\ s.pc \notin {"direct_ok", "direct_panic", "panic", "err",
                                   "upgrade", "fill"}
                   /\ ~s.exclusive
                   /\ ~s.missed
                   /\ s.pc = "ok" =>
                          \A k \in DOMAIN s.ids :
                              s.res[k] = <<unit.written[1].data.index[s.ids[k]]>>

\* on one in-memory block, one caller was handed the error of read_index
\* and the other has the two lists it asked read_indicies for
C32_Witness ==
    /\ unit.block # <<>>
    /\ IsInMemory(unit.block[1])
    /\ unit.readers["r1"].pc = "direct_err"
    /\ unit.readers["r2"].pc = "ok"
    /\ unit.readers["r2"].ids = <<2, 1>>

\* the byte offset of the i-th character of a query
ByteOffset(q, i) == str_len(SubSeq(q, 1, i - 1))

\* the character at a byte offset, 0 where no character starts there
CharAt(q, b) ==
    IF \E i \in DOMAIN q : ByteOffset(q, i) = b
    THEN CHOOSE i \in DOMAIN q : ByteOffset(q, i) = b
    ELSE 0

\* query[start..end]
Slice(q, start, end) ==
    SelectSeq([i \in DOMAIN q |-> [c |-> q[i], at |-> ByteOffset(q, i)]],
              LAMBDA x : start <= x.at /\ x.at < end)

SliceChars(q, start, end) ==
    [k \in DOMAIN Slice(q, start, end) |-> Slice(q, start, end)[k].c]

\* where a token starts
TokenAt(item) == IF item.type = "Tag" THEN item.start ELSE item.position

\* C33: every call of next() that returns an item leaves the tokenizer at
\* least one byte behind where the item starts, so a query of n bytes gives
\* at most n items; the items start at strictly increasing byte positions
\* and none starts before the one before it ends; a tag that does not start
\* with a quote has the value query[start..end], one that does has
\* query[start+1..end-1] between two quotes; UnpairedQuote carries the byte
\* offset of a quote after which the query has no other.
C33_TokenizerProgress ==
    LET q == unit.lex.query
        out == unit.lex.out
    IN  /\ Len(out) <= str_len(q)
        /\ unit.lex.done => unit.lex.self.tail = <<>>
        /\ \A k \in DOMAIN out :
               LET item == out[k].item
                   at == TokenAt(item)
                   i == CharAt(q, at)
               IN  /\ i > 0
                   /\ out[k].to > at
                   /\ out[k].to <= str_len(q)
                   /\ at >= out[k].from
                   /\ k > 1 => /\ at >= out[k - 1].to
                               /\ at > TokenAt(out[k - 1].item)
                   /\ item.type = "Tag" =>
                          /\ item.end = out[k].to
                          /\ IF q[i] = "\""
                             THEN /\ item.end >= item.start + 2
                                  /\ q[CharAt(q, item.end - 1)] = "\""
                                  /\ item.value
                                         = SliceChars(q, item.start + 1, item.end - 1)
                             ELSE item.value = SliceChars(q, item.start, item.end)
                   /\ item.type = "UnpairedQuote" =>
                          /\ q[i] = "\""
                          /\ \A j \in DOMAIN q : j > i => q[j] # "\""
                   /\ (q[i] = "\"" /\ \A j \in DOMAIN q : j > i => q[j] # "\"")
                          => item.type = "UnpairedQuote"

\* a letter of two bytes, a whitespace and a quote that is never closed:
\* the tag of the bytes 0 to 2, then the error with the quote's offset 3
C33_Witness ==
    /\ unit.lex.query = <<"U+00E9", " ", "\"", "_">>
    /\ unit.lex.done
    /\ Len(unit.lex.out) = 3
    /\ unit.lex.out[1].item
           = [type |-> "Tag", value |-> <<"U+00E9">>, start |-> 0, end |-> 2]
    /\ unit.lex.out[2].item = [type |-> "UnpairedQuote", position |-> 3]

\* the length of the longest run of accepted characters from the i-th on
RunLen(q, i, accepted) ==
    CHOOSE n \in 0..(Len(q) - i + 1) :
        /\ \A j \in i..(i + n - 1) : q[j] \in accepted
        /\ i + n <= Len(q) => q[i + n] \notin accepted

\* the keyword a word is, in lower case, or <<>>
KeywordOf(word) ==
    LET low == [j \in DOMAIN word |-> IF word[j] = "O" THEN "o" ELSE word[j]]
    IN  IF low = <<"a", "n", "d">> THEN <<"And">>
        ELSE IF low = <<"o", "r">> THEN <<"Or">>
        ELSE IF low = <<"n", "o", "t">> THEN <<"Not">>
        ELSE <<>>

\* C34: an item starts at the first character behind the item before it
\* that is no whitespace. There '(', ')' and '~' are operators of one
\* character; and, or and not, in any case, are operators exactly when the
\* longest run of ASCII letters there is the keyword; anything else starts a
\* tag. A tag that starts with a quote runs to the next quote, one that does
\* not runs to the next whitespace, '(', ')' or '~' or to the end, so a
\* keyword or a quote inside either is part of the tag.
C34_OperatorRecognition ==
    LET q == unit.lex.query
        out == unit.lex.out
    IN  \A k \in DOMAIN out :
            LET item == out[k].item
                at == TokenAt(item)
                i == CharAt(q, at)
                behind == IF k = 1 THEN 1 ELSE Len(q) + 1 - Len(Slice(q, out[k - 1].to,
                                                                     str_len(q)))
                run == RunLen(q, i, AsciiAlphabetic)
                keyword == KeywordOf(SubSeq(q, i, i + run - 1))
                single == q[i] \in {"(", ")", "~"}
            IN  /\ i = behind + RunLen(q, behind, Whitespace)
                /\ item.type = "Operator" <=> (single \/ keyword # <<>>)
                /\ single =>
                       /\ item.kind = (CASE q[i] = "(" -> "OpenParen"
                                         [] q[i] = ")" -> "CloseParen"
                                         [] q[i] = "~" -> "Fuzzy")
                       /\ out[k].to = at + 1
                /\ (~single /\ keyword # <<>>) =>
                       /\ item.kind = keyword[1]
                       /\ out[k].to = at + run
                /\ (item.type = "Tag" /\ q[i] # "\"") =>
                       item.end = at + str_len(SubSeq(q, i, i - 1 + RunLen(q, i,
                                     Alphabet \ {"(", ")", "~", " "})))
                /\ (item.type = "Tag" /\ q[i] = "\"") =>
                       item.end = at + 2 + str_len(SubSeq(q, i + 1,
                                     i + RunLen(q, i + 1, Alphabet \ {"\""})))

\* "Or_n": the keyword in mixed case, then a tag that begins with what is
\* left of the word
C34_Witness ==
    /\ unit.lex.query = <<"O", "r", "_", "n">>
    /\ Len(unit.lex.out) = 2
    /\ unit.lex.out[1].item = [type |-> "Operator", kind |-> "Or", position |-> 0]
    /\ unit.lex.out[2].item
           = [type |-> "Tag", value |-> <<"_", "n">>, start |-> 2, end |-> 4]

\* C35: when compaction returns a block for the disk writer, compact_list is
\* empty: no block older than the flushed one stays behind.
C35_FlushEmptiesList ==
    (unit.last.op = "compact" /\ ~unit.last.panic /\ unit.last.new_block # <<>>) =>
        /\ unit.list = <<>>
        /\ unit.last.after = <<>>
        /\ ListKeys(unit.last.new_block) = ListKeys(unit.last.before)

\* under the larger max_block_size, a list of three blocks went to the disk
\* writer as one
C35_Witness ==
    /\ unit.last.op = "compact"
    /\ ~unit.last.panic
    /\ unit.limit > max_block_size
    /\ Len(unit.last.before) = 3
    /\ unit.last.new_block # <<>>
    /\ unit.list = <<>>

\* 4 to the power of n
RECURSIVE Pow4(_)
Pow4(n) == IF n = 0 THEN 1 ELSE 4 * Pow4(n - 1)

\* C36: after every save_active, each block of compact_list has at least
\* four times the size of the block behind it, the last pair and every
\* other; so with n blocks in the list the first has at least 4^(n-1) pairs,
\* which max_block_size bounds.
C36_GeometricSizes ==
    (unit.last.op = "compact" /\ ~unit.last.panic) =>
        /\ \A i \in 1..(Len(unit.list) - 1) :
               unit.list[i].size >= 4 * unit.list[i + 1].size
        /\ unit.list # <<>> =>
               /\ unit.list[1].size >= Pow4(Len(unit.list) - 1)
               /\ Pow4(Len(unit.list) - 1) <= unit.limit

\* two blocks are left, the older more than four times the newer, after
\* a save that merged
C36_Witness ==
    /\ unit.last.op = "compact"
    /\ Len(unit.list) = 2
    /\ unit.list[1].size > 4 * unit.list[2].size
    /\ unit.list[2].size > 1
    /\ Len(unit.last.before) = 3

\* C37: after every save_active no block of compact_list is larger than
\* max_block_size, whatever the sizes of the sealed blocks, one that alone
\* exceeds max_block_size included.
C37_SizeBound ==
    (unit.last.op = "compact" /\ ~unit.last.panic) =>
        \A i \in DOMAIN unit.list : unit.list[i].size <= unit.limit

\* a sealed block that alone exceeds max_block_size was pushed behind a
\* block that had stayed; nothing is left
C37_Witness ==
    /\ unit.last.op = "compact"
    /\ ~unit.last.panic
    /\ Len(unit.last.before) = 2
    /\ Last(unit.last.before).size > unit.limit
    /\ unit.list = <<>>

\* the total length of the posting lists of an active block
ActivePairs(active) == IndexPairs(ActiveBlock_into_block(active).data.index)

RECURSIVE FilePairs(_)
FilePairs(files) ==
    IF files = <<>> THEN 0
    ELSE IndexPairs(Head(files).data.index) + FilePairs(Tail(files))

\* the size of every block is the total length of its posting lists
SizesMatch ==
    /\ ActiveBlock_size(active_block) = ActivePairs(active_block)
    /\ ActiveBlock_size(worker.old_active) = ActivePairs(worker.old_active)
    /\ \A k \in DOMAIN compact_list :
           compact_list[k].size = IndexPairs(compact_list[k].data.index)
    /\ \A k \in DOMAIN worker.new_block :
           worker.new_block[k].size = IndexPairs(worker.new_block[k].data.index)
    /\ ActiveBlock_size(unit.active) = ActivePairs(unit.active)
    /\ \A slot \in Slots : unit[slot].size = IndexPairs(unit[slot].data.index)

\* C38: the size of the active block and of every sealed or merged block is
\* the total length of its posting lists, and with no failed flush, when no
\* push and no save is under way, the sizes of the active block, of the
\* blocks of compact_list and of the flushed blocks add up to the number of
\* (document, tag) pairs pushed.
C38_SizeAccounting ==
    /\ SizesMatch
    /\ (~flush_failed /\ Quiescent) =>
           ActiveBlock_size(active_block) + SizeSum(compact_list)
               + FilePairs(block_files) = pairs_of(pushed)

\* BlockData::range does not panic on the data
HasRange(data) == data.timestamps # <<>> /\ data.keys # <<>>

C40_UpdateIndexPreserves ==
    (/\ unit.last.op = "read_index"
     /\ ~unit.last.cached
     /\ \E u \in unit.updated : u.of = unit.last.of /\ u.id = unit.last.id)
        => /\ ~unit.last.err
           /\ \A u \in unit.updated :
                  (u.of = unit.last.of /\ u.id = unit.last.id)
                      => unit.block[1].data.index[u.id] = <<u.list>>

====
